---- MODULE Spec2Model ----
(***************************************************************************)
(* Canonicalization, snapshot and diff engine of unit-tracker.             *)
(*                                                                         *)
(* JavaScript values are modelled as follows.  A string is a sequence of   *)
(* one-character strings ("217" is <<"2","1","7">>); null and undefined    *)
(* are the one-element sequence Null, whose element is not a character;    *)
(* an array is a sequence; a Set or Map is a sequence without repeated     *)
(* keys, in insertion order.  The tables unit_snapshots and unit_events    *)
(* are sequences of rows.                                                  *)
(***************************************************************************)
EXTENDS Naturals, Sequences, FiniteSets

VARIABLES
    unit_snapshots,   \* table unit_snapshots: rows [property_id, snapshot_date, units_json]
    unit_events,      \* table unit_events: rows [property_id, event_date, unit_key, unit_number, event_type, source]
    last,             \* what the most recent run did (pipeline, target, input, diff, outcome)
    runs,             \* number of runs started so far
    fn,               \* the pure-function harness: inputs drawn at Init and the results of applying the code's functions
    proc,             \* concurrent runs: each process's position in main and its local variables
    unit_changes,     \* table unit_changes: rows [property_id, snapshot_date, change_type, unit_id, unit_number, before, after]
    lockFile          \* whether run_sightmap_all.lock exists

vars == <<unit_snapshots, unit_events, last, runs, fn, proc, unit_changes, lockFile>>

-----------------------------------------------------------------------------
(* JavaScript values *)

Null == <<"null">>

Truthy(x) == x # Null /\ x # <<>>

\* a || b
Or(a, b) == IF Truthy(a) THEN a ELSE b

\* String(undefined)
StrUndefined == <<"u","n","d","e","f","i","n","e","d">>

\* String(x) for x a string or undefined
JSString(x) == IF x = Null THEN StrUndefined ELSE x

UnitPrefix == <<"u","n","i","t",":">>

IdPrefix == <<"i","d",":">>

\* s.startsWith(p)
StartsWith(s, p) == Len(s) >= Len(p) /\ SubSeq(s, 1, Len(p)) = p

\* s.slice(n)
Slice(s, n) == SubSeq(s, n + 1, Len(s))

RECURSIVE TrimLeft(_)
TrimLeft(s) == IF s # <<>> /\ Head(s) = " " THEN TrimLeft(Tail(s)) ELSE s

RECURSIVE TrimRight(_)
TrimRight(s) ==
    IF s # <<>> /\ s[Len(s)] = " " THEN TrimRight(SubSeq(s, 1, Len(s) - 1)) ELSE s

\* s.trim()
Trim(s) == TrimRight(TrimLeft(s))

Range(s) == {s[i] : i \in DOMAIN s}

\* new Set(arr), as the sequence of its members in insertion order
RECURSIVE NewSet(_)
NewSet(s) ==
    IF s = <<>> THEN <<>>
    ELSE LET init == NewSet(SubSeq(s, 1, Len(s) - 1))
             x == s[Len(s)]
         IN  IF x \in Range(init) THEN init ELSE Append(init, x)

\* A missing (null or undefined) array
NullArr == <<[null |-> TRUE]>>

\* arr || []
OrEmpty(arr) == IF arr = NullArr THEN <<>> ELSE arr

-----------------------------------------------------------------------------
(* Key normalizers *)

\* normalizeUnitNumber(x): String(x ?? "").trim() or null
normalizeUnitNumber(x) ==
    LET n == Trim(IF x = Null THEN <<>> ELSE x)
    IN  IF n # <<>> THEN n ELSE Null

\* normalizeUnitKeyFromNumber of the ProspectPortal and RentCafe v6 pushers
normalizeUnitKeyFromNumber(unitNumber) ==
    LET n == normalizeUnitNumber(unitNumber)
    IN  IF ~Truthy(n) THEN Null
        ELSE IF StartsWith(n, UnitPrefix) THEN n ELSE UnitPrefix \o n

\* normalizeUnitKeyFromUnitNumber of push_sightmap_snapshot_to_supabase_v2
normalizeUnitKeyFromUnitNumber(unitNumber) ==
    LET n == normalizeUnitNumber(unitNumber)
    IN  IF Truthy(n) THEN UnitPrefix \o n ELSE Null

\* unitNumberFromUnitKey of the ProspectPortal and RentCafe v6 pushers
unitNumberFromUnitKey(unitKey) ==
    IF ~Truthy(unitKey) THEN Null
    ELSE IF StartsWith(unitKey, UnitPrefix)
         THEN Or(Slice(unitKey, 5), Null)
         ELSE Or(unitKey, Null)

\* unitNumberFromKey of diff_snapshots_to_unit_events
unitNumberFromKey(unitKey) ==
    IF ~Truthy(unitKey) THEN Null
    ELSE IF StartsWith(unitKey, UnitPrefix)
         THEN Or(Slice(unitKey, 5), Null)
         ELSE Null

\* normalizeUnitKey of diff_snapshots_to_unit_events
normalizeUnitKey(u) ==
    LET unitId == IF u.unit_id # Null THEN u.unit_id ELSE <<>>
        unitNumber == IF u.unit_number # Null THEN Trim(u.unit_number) ELSE <<>>
    IN  IF StartsWith(unitId, UnitPrefix) THEN unitId
        ELSE IF unitNumber # <<>> THEN UnitPrefix \o unitNumber
        ELSE IF unitId # <<>> THEN IdPrefix \o unitId
        ELSE Null

\* unitKeyForEvents of run_rentcafe_all_with_events
unitKeyForEvents(u) ==
    Or(Trim(Or(Or(u.unit_id, u.unit_number), <<>>)), Null)

-----------------------------------------------------------------------------
(* Diff engine.  A unit is a record [unit_key, unit_id, unit_number, price]; *)
(* a field the unit does not carry is Null.                                  *)

\* a filter that keeps every key
NotIn_keepAll(keys, others) == keys

\* currKeys.filter((k) => !prevKeys.has(k))
NotIn(keys, others) == SelectSeq(keys, LAMBDA k : k \notin Range(others))

\* units.map(unitKeyForEvents).filter(Boolean)
EventKeys(units) ==
    SelectSeq([i \in DOMAIN units |-> unitKeyForEvents(units[i])], Truthy)

\* diffUnitKeys of run_rentcafe_all_with_events
diffUnitKeys(prevUnits, currUnits) ==
    LET prevKeys == NewSet(EventKeys(OrEmpty(prevUnits)))
        currKeys == NewSet(EventKeys(OrEmpty(currUnits)))
    IN  [appeared |-> NotIn(currKeys, prevKeys),
         disappeared |-> NotIn(prevKeys, currKeys)]

\* units.map((u) => u.unit_key).filter(Boolean)
UnitKeys(units) ==
    SelectSeq([i \in DOMAIN units |-> units[i].unit_key], Truthy)

\* diffKeys of the ProspectPortal and RentCafe v6 pushers
diffKeysOfUnits(prevUnits, currUnits) ==
    LET prevSet == NewSet(UnitKeys(OrEmpty(prevUnits)))
        currSet == NewSet(UnitKeys(OrEmpty(currUnits)))
    IN  [appeared |-> NotIn(currSet, prevSet),
         disappeared |-> NotIn(prevSet, currSet)]

\* diffUnits of push_sightmap_snapshot_to_supabase_v2
diffUnits(prevUnits, currUnits) ==
    LET prevSet == NewSet(UnitKeys(OrEmpty(prevUnits)))
        currSet == NewSet(UnitKeys(OrEmpty(currUnits)))
    IN  [appeared |-> NotIn(currSet, prevSet),
         disappeared |-> NotIn(prevSet, currSet)]

\* m.set(key, value) on a Map kept as a sequence of [key, unit_number] entries
MapSet(m, key, value) ==
    IF \E i \in DOMAIN m : m[i].key = key
    THEN [i \in DOMAIN m |->
            IF m[i].key = key THEN [key |-> key, unit_number |-> value] ELSE m[i]]
    ELSE Append(m, [key |-> key, unit_number |-> value])

\* m.keys()
MapKeys(m) == [i \in DOMAIN m |-> m[i].key]

\* buildMap of diff_snapshots_to_unit_events
RECURSIVE buildMap(_)
buildMap(units) ==
    IF OrEmpty(units) = <<>> THEN <<>>
    ELSE LET us == OrEmpty(units)
             m == buildMap(SubSeq(us, 1, Len(us) - 1))
             u == us[Len(us)]
             key == normalizeUnitKey(u)
             unit_number ==
                 Or(Or(IF u.unit_number # Null THEN Trim(u.unit_number) ELSE Null,
                       unitNumberFromKey(key)), Null)
         IN  IF ~Truthy(key) THEN m ELSE MapSet(m, key, unit_number)

\* diffKeys of diff_snapshots_to_unit_events
diffKeys(prevMap, currMap) ==
    LET prevKeys == NewSet(MapKeys(prevMap))
        currKeys == NewSet(MapKeys(currMap))
    IN  [appeared |-> NotIn(currKeys, prevKeys),
         disappeared |-> NotIn(prevKeys, currKeys)]

-----------------------------------------------------------------------------
(* Storage: the two tables and the Supabase calls the scripts make on them *)

NoRow == [none |-> TRUE]

\* .eq("property_id", p).lte/lt("snapshot_date", d): the matching row indexes
RowsUpTo(rows, propertyId, upTo) ==
    {i \in DOMAIN rows :
        rows[i].property_id = propertyId /\ rows[i].snapshot_date <= upTo}

\* the index among idx of the row with the latest snapshot_date
LatestIdx(rows, idx) ==
    CHOOSE i \in idx : \A j \in idx : rows[j].snapshot_date <= rows[i].snapshot_date

\* .order("snapshot_date", {ascending: false}).limit(1) over the rows at idx
Latest(rows, idx) == IF idx = {} THEN NoRow ELSE rows[LatestIdx(rows, idx)]

\* Faulty variant of getLatestSnapshot: .lt instead of .lte
getLatestSnapshot_before(rows, propertyId, upToDateISO) ==
    Latest(rows, {i \in DOMAIN rows :
                    rows[i].property_id = propertyId
                    /\ rows[i].snapshot_date < upToDateISO})

\* getLatestSnapshot / loadLatestSnapshotUnits: latest row with date <= upToDateISO
getLatestSnapshot(rows, propertyId, upToDateISO) ==
    Latest(rows, RowsUpTo(rows, propertyId, upToDateISO))

\* getPreviousSnapshot of run_rentcafe_all_with_events: latest row with date < today
getPreviousSnapshot(rows, propertyId, today) ==
    Latest(rows, {i \in DOMAIN rows :
                    rows[i].property_id = propertyId /\ rows[i].snapshot_date < today})

\* prev?.units_json || []
UnitsOf(row) == IF row = NoRow THEN <<>> ELSE row.units_json

\* Faulty variant of upsertSnapshot: on conflict the new units are appended to the
\* stored ones
upsertSnapshot_merge(rows, propertyId, snapshotDate, units) ==
    IF \E i \in DOMAIN rows :
          rows[i].property_id = propertyId /\ rows[i].snapshot_date = snapshotDate
    THEN [i \in DOMAIN rows |->
            IF rows[i].property_id = propertyId /\ rows[i].snapshot_date = snapshotDate
            THEN [rows[i] EXCEPT !.units_json = @ \o units]
            ELSE rows[i]]
    ELSE Append(rows, [property_id |-> propertyId, snapshot_date |-> snapshotDate,
                       units_json |-> units])

\* Faulty variant of upsertSnapshot: a plain insert, without the conflict target
upsertSnapshot_insert(rows, propertyId, snapshotDate, units) ==
    Append(rows, [property_id |-> propertyId, snapshot_date |-> snapshotDate,
                  units_json |-> units])

\* supabase.from("unit_snapshots").upsert(row, {onConflict: "property_id,snapshot_date"})
upsertSnapshot(rows, propertyId, snapshotDate, units) ==
    IF \E i \in DOMAIN rows :
          rows[i].property_id = propertyId /\ rows[i].snapshot_date = snapshotDate
    THEN [i \in DOMAIN rows |->
            IF rows[i].property_id = propertyId /\ rows[i].snapshot_date = snapshotDate
            THEN [rows[i] EXCEPT !.units_json = units]
            ELSE rows[i]]
    ELSE Append(rows, [property_id |-> propertyId, snapshot_date |-> snapshotDate,
                       units_json |-> units])

\* Faulty variant of deleteEventsForDay: the property filter is left out
deleteEventsForDay_anyProperty(rows, propertyId, eventDate, source) ==
    SelectSeq(rows, LAMBDA r : ~(r.event_date = eventDate /\ r.source = source))

\* Faulty variant of deleteEventsForDay: the source filter is left out
deleteEventsForDay_anySource(rows, propertyId, eventDate, source) ==
    SelectSeq(rows, LAMBDA r : ~(r.property_id = propertyId /\ r.event_date = eventDate))

\* Faulty variant of deleteEventsForDay: the delete is left out
deleteEventsForDay_skipped(rows, propertyId, eventDate, source) == rows

\* supabase.from("unit_events").delete().eq(property_id).eq(event_date).eq(source)
deleteEventsForDay(rows, propertyId, eventDate, source) ==
    SelectSeq(rows, LAMBDA r : ~(r.property_id = propertyId
                                 /\ r.event_date = eventDate /\ r.source = source))

\* Faulty variant of insertEvents: the request is sent twice
insertEvents_twice(rows, events) == rows \o events \o events

\* supabase.from("unit_events").insert(events)
insertEvents(rows, events) == rows \o events

\* replaceEventsForDay of the ProspectPortal and RentCafe v6 pushers
replaceEventsForDay(rows, propertyId, eventDate, source, events) ==
    insertEvents(deleteEventsForDay(rows, propertyId, eventDate, source), events)

EventRow(propertyId, eventDate, unitKey, unitNumber, eventType, source) ==
    [property_id |-> propertyId, event_date |-> eventDate, unit_key |-> unitKey,
     unit_number |-> unitNumber, event_type |-> eventType, source |-> source]

-----------------------------------------------------------------------------
(* Event rows *)

\* m.get(key) on a Map kept as a sequence of [key, unit_number] entries
MapGet(m, key) ==
    IF \E i \in DOMAIN m : m[i].key = key
    THEN m[CHOOSE i \in DOMAIN m : m[i].key = key].unit_number
    ELSE Null

\* for (const u of unitsToday) if (u.unit_key && u.unit_number) map.set(u.unit_key, u.unit_number)
RECURSIVE KeyToNumber(_)
KeyToNumber(units) ==
    IF units = <<>> THEN <<>>
    ELSE LET m == KeyToNumber(SubSeq(units, 1, Len(units) - 1))
             u == units[Len(units)]
         IN  IF Truthy(u.unit_key) /\ Truthy(u.unit_number)
             THEN MapSet(m, u.unit_key, u.unit_number)
             ELSE m

\* Faulty variant of SliceUnitNumber: the number is never recovered from the key
SliceUnitNumber_never(unitKey) == Null

\* unit_key?.startsWith("unit:") ? unit_key.slice(5) : null
SliceUnitNumber(unitKey) ==
    IF unitKey # Null /\ StartsWith(unitKey, UnitPrefix) THEN Slice(unitKey, 5) ELSE Null

\* the events array built in writeEvents of run_rentcafe_all_with_events
EventsOfRentCafe(propertyId, today, appeared, disappeared, source) ==
    [i \in DOMAIN appeared |->
        EventRow(propertyId, today, appeared[i], SliceUnitNumber(appeared[i]),
                 "appeared", source)]
    \o
    [i \in DOMAIN disappeared |->
        EventRow(propertyId, today, disappeared[i], SliceUnitNumber(disappeared[i]),
                 "disappeared", source)]

\* the events array built in main of the ProspectPortal and RentCafe v6 pushers
EventsOfPusher(propertyId, snapshotDate, appeared, disappeared, unitsToday, source) ==
    LET unitKeyToNumber == KeyToNumber(unitsToday)
        num(k) == Or(MapGet(unitKeyToNumber, k), unitNumberFromUnitKey(k))
    IN  [i \in DOMAIN appeared |->
            EventRow(propertyId, snapshotDate, appeared[i], num(appeared[i]),
                     "appeared", source)]
        \o
        [i \in DOMAIN disappeared |->
            EventRow(propertyId, snapshotDate, disappeared[i], num(disappeared[i]),
                     "disappeared", source)]

\* the events array built in main of push_sightmap_snapshot_to_supabase_v2
EventsOfSightmap(propertyId, snapshotDate, appeared, disappeared, unitsToday, source) ==
    LET keyToNum == KeyToNumber(unitsToday)
        num(k) == Or(MapGet(keyToNum, k), SliceUnitNumber(k))
    IN  [i \in DOMAIN appeared |->
            EventRow(propertyId, snapshotDate, appeared[i], num(appeared[i]),
                     "appeared", source)]
        \o
        [i \in DOMAIN disappeared |->
            EventRow(propertyId, snapshotDate, disappeared[i], num(disappeared[i]),
                     "disappeared", source)]

\* the rows array built in writeEvents of diff_snapshots_to_unit_events
EventsOfDiff(propertyId, eventDate, appearedKeys, disappearedKeys, currMap, source) ==
    [i \in DOMAIN appearedKeys |->
        EventRow(propertyId, eventDate, appearedKeys[i],
                 Or(Or(MapGet(currMap, appearedKeys[i]),
                       unitNumberFromKey(appearedKeys[i])), Null),
                 "appeared", source)]
    \o
    [i \in DOMAIN disappearedKeys |->
        EventRow(propertyId, eventDate, disappearedKeys[i],
                 Or(unitNumberFromKey(disappearedKeys[i]), Null),
                 "disappeared", source)]

-----------------------------------------------------------------------------
(* Canonical unit builders *)

Unit(unitKey, unitId, unitNumber, price) ==
    [unit_key |-> unitKey, unit_id |-> unitId, unit_number |-> unitNumber,
     price |-> price]

\* the unitsToday loop in main of push_rentcafe_snapshot_to_supabase_v6
RECURSIVE BuildUnitsToday(_)
BuildUnitsToday(list) ==
    IF list = <<>> THEN <<>>
    ELSE LET done == BuildUnitsToday(SubSeq(list, 1, Len(list) - 1))
             u == list[Len(list)]
             unit_key == Or(normalizeUnitKeyFromNumber(u.unit_number), u.unit_key)
             unit_number == Or(normalizeUnitNumber(u.unit_number),
                               unitNumberFromUnitKey(unit_key))
         IN  IF ~Truthy(u.unit_key) THEN done
             ELSE IF ~Truthy(unit_key) THEN done
             ELSE IF \E i \in DOMAIN done : done[i].unit_key = unit_key THEN done
             ELSE Append(done, [u EXCEPT !.unit_key = unit_key,
                                         !.unit_number = unit_number])

\* u?.unit_id?.startsWith("unit:") ? u.unit_id : null
UnitIdIfKey(u) ==
    IF u.unit_id # Null /\ StartsWith(u.unit_id, UnitPrefix) THEN u.unit_id ELSE Null

\* the prevUnits map/filter in main of push_rentcafe_snapshot_to_supabase_v6
normalizePrevUnits_v6(prevUnitsRaw) ==
    SelectSeq(
        [i \in DOMAIN prevUnitsRaw |->
            LET u == prevUnitsRaw[i]
                unit_key == Or(Or(u.unit_key, normalizeUnitKeyFromNumber(u.unit_number)),
                               UnitIdIfKey(u))
                unit_number == Or(Or(u.unit_number, unitNumberFromUnitKey(unit_key)),
                                  SliceUnitNumber(u.unit_id))
            IN  [u EXCEPT !.unit_key = unit_key, !.unit_number = unit_number]],
        LAMBDA u : Truthy(u.unit_key))

\* the prevUnits map/filter in main of push_prospectportal_snapshot_to_supabase_v3
normalizePrevUnits_v3(prevUnitsRaw) ==
    SelectSeq(
        [i \in DOMAIN prevUnitsRaw |->
            LET u == prevUnitsRaw[i]
                unit_key == Or(Or(u.unit_key, normalizeUnitKeyFromNumber(u.unit_number)),
                               UnitIdIfKey(u))
                unit_number == Or(Or(u.unit_number, unitNumberFromUnitKey(unit_key)),
                                  unitNumberFromUnitKey(u.unit_id))
            IN  [u EXCEPT !.unit_key = unit_key, !.unit_number = unit_number]],
        LAMBDA u : Truthy(u.unit_key))

\* extractUnits of push_sightmap_snapshot_to_supabase_v2; a payload is the
\* array payload.data.units of raw records [id, unit_number, price], or NullArr
extractUnits_v2(payload) ==
    IF payload = NullArr THEN <<>>
    ELSE SelectSeq(
            [i \in DOMAIN payload |->
                LET u == payload[i]
                    unitNumber == normalizeUnitNumber(u.unit_number)
                    unitKey == normalizeUnitKeyFromUnitNumber(unitNumber)
                IN  Unit(unitKey, JSString(u.id), unitNumber, u.price)],
            LAMBDA u : Truthy(u.unit_number))

\* extractUnits of push_sightmap_snapshot_to_supabase
extractUnits_v1(payload) ==
    IF payload = NullArr THEN <<>>
    ELSE [i \in DOMAIN payload |->
            Unit(Null, JSString(payload[i].id), payload[i].unit_number,
                 payload[i].price)]

-----------------------------------------------------------------------------
(* The scripts, one serialized run each.  A run's input is what its         *)
(* extraction adapter returned.                                             *)

MaxRuns == 2

\* What a run did, kept for the properties below
Ran(pipeline, propertyId, date, source, input, units, hadSnapshot, baseline, diff, outcome) ==
    [pipeline |-> pipeline, property_id |-> propertyId, date |-> date,
     source |-> source, input |-> input, units |-> units,
     hadSnapshot |-> hadSnapshot, baseline |-> baseline,
     overwrote |-> \E i \in DOMAIN unit_snapshots :
                      /\ unit_snapshots[i].property_id = propertyId
                      /\ unit_snapshots[i].snapshot_date = date
                      /\ unit_snapshots[i].units_json # units,
     appeared |-> diff.appeared, disappeared |-> diff.disappeared,
     outcome |-> outcome]

NoDiff == [appeared |-> <<>>, disappeared |-> <<>>]

NoRun == Ran("none", "", 0, "", <<>>, <<>>, FALSE, <<>>, NoDiff, "none")

HasSnapshot(rows, propertyId) ==
    \E i \in DOMAIN rows : rows[i].property_id = propertyId

\* runOneProperty of run_rentcafe_all_with_events (EVENT_SOURCE defaults to "snapshot")
runOneProperty(id, today, units) ==
    LET snaps == upsertSnapshot(unit_snapshots, id, today, units)
        prev == getPreviousSnapshot(snaps, id, today)
        prevUnits == UnitsOf(prev)
        d == diffUnitKeys(prevUnits, units)
    IN  /\ runs < MaxRuns
        /\ runs' = runs + 1
        /\ unit_snapshots' = snaps
        /\ unit_events' =
              insertEvents(deleteEventsForDay(unit_events, id, today, "snapshot"),
                           EventsOfRentCafe(id, today, d.appeared, d.disappeared,
                                            "snapshot"))
        /\ last' = Ran("run_rentcafe_all_with_events", id, today, "snapshot", units,
                       units, HasSnapshot(unit_snapshots, id), prevUnits, d, "done")
        /\ UNCHANGED <<fn, proc, unit_changes, lockFile>>

\* main of push_rentcafe_snapshot_to_supabase_v6 (EVENT_SOURCE defaults to "rentcafe")
main_rentcafe_v6(propertyId, snapshotDate, domUnits) ==
    LET unitsToday == BuildUnitsToday(domUnits)
        prevSnap == getLatestSnapshot(unit_snapshots, propertyId, snapshotDate)
        prevUnits == normalizePrevUnits_v6(UnitsOf(prevSnap))
        d == diffKeysOfUnits(prevUnits, unitsToday)
        events == EventsOfPusher(propertyId, snapshotDate, d.appeared, d.disappeared,
                                 unitsToday, "rentcafe")
    IN  /\ runs < MaxRuns
        /\ runs' = runs + 1
        /\ unit_snapshots' =
              upsertSnapshot(unit_snapshots, propertyId, snapshotDate, unitsToday)
        /\ unit_events' =
              replaceEventsForDay(unit_events, propertyId, snapshotDate, "rentcafe",
                                  events)
        /\ last' = Ran("push_rentcafe_snapshot_to_supabase_v6", propertyId,
                       snapshotDate, "rentcafe", domUnits, unitsToday,
                       HasSnapshot(unit_snapshots, propertyId), prevUnits, d, "done")
        /\ UNCHANGED <<fn, proc, unit_changes, lockFile>>

\* main of push_prospectportal_snapshot_to_supabase_v3 (EVENT_SOURCE defaults to
\* "prospectportal"); unitsToday is what scrapeProspectPortalUnits returned
main_prospectportal_v3(propertyId, snapshotDate, unitsToday) ==
    LET prevSnap == getLatestSnapshot(unit_snapshots, propertyId, snapshotDate)
        prevUnits == normalizePrevUnits_v3(UnitsOf(prevSnap))
        d == diffKeysOfUnits(prevUnits, unitsToday)
        events == EventsOfPusher(propertyId, snapshotDate, d.appeared, d.disappeared,
                                 unitsToday, "prospectportal")
    IN  /\ runs < MaxRuns
        /\ runs' = runs + 1
        /\ IF unitsToday = <<>>
           THEN \* process.exit(2)
                /\ UNCHANGED <<unit_snapshots, unit_events>>
                /\ last' = Ran("push_prospectportal_snapshot_to_supabase_v3", propertyId,
                               snapshotDate, "prospectportal", unitsToday, unitsToday,
                               HasSnapshot(unit_snapshots, propertyId),
                               UnitsOf(prevSnap), NoDiff, "exit2")
           ELSE /\ unit_snapshots' =
                      upsertSnapshot(unit_snapshots, propertyId, snapshotDate, unitsToday)
                /\ unit_events' =
                      replaceEventsForDay(unit_events, propertyId, snapshotDate,
                                          "prospectportal", events)
                /\ last' = Ran("push_prospectportal_snapshot_to_supabase_v3", propertyId,
                               snapshotDate, "prospectportal", unitsToday, unitsToday,
                               HasSnapshot(unit_snapshots, propertyId), prevUnits, d,
                               "done")
        /\ UNCHANGED <<fn, proc, unit_changes, lockFile>>

\* what main of push_sightmap_snapshot_to_supabase_v2 does to the store (source is
\* "sightmap")
main_sightmap_v2_run(propertyId, snapshotDate, payload) ==
    LET unitsToday == extractUnits_v2(payload)
        prevUnits == UnitsOf(getLatestSnapshot(unit_snapshots, propertyId, snapshotDate))
        d == diffUnits(prevUnits, unitsToday)
        events == EventsOfSightmap(propertyId, snapshotDate, d.appeared, d.disappeared,
                                   unitsToday, "sightmap")
    IN  /\ IF unitsToday = <<>>
           THEN \* process.exit(2)
                /\ UNCHANGED <<unit_snapshots, unit_events>>
                /\ last' = Ran("push_sightmap_snapshot_to_supabase_v2", propertyId,
                               snapshotDate, "sightmap", payload, unitsToday,
                               HasSnapshot(unit_snapshots, propertyId), prevUnits,
                               NoDiff, "exit2")
           ELSE /\ unit_snapshots' =
                      upsertSnapshot(unit_snapshots, propertyId, snapshotDate, unitsToday)
                /\ unit_events' =
                      insertEvents(deleteEventsForDay(unit_events, propertyId,
                                                      snapshotDate, "sightmap"), events)
                /\ last' = Ran("push_sightmap_snapshot_to_supabase_v2", propertyId,
                               snapshotDate, "sightmap", payload, unitsToday,
                               HasSnapshot(unit_snapshots, propertyId), prevUnits, d,
                               "done")

\* main of push_sightmap_snapshot_to_supabase_v2, as one serialized run
main_sightmap_v2(propertyId, snapshotDate, payload) ==
    /\ runs < MaxRuns
    /\ runs' = runs + 1
    /\ main_sightmap_v2_run(propertyId, snapshotDate, payload)
    /\ UNCHANGED <<fn, proc, unit_changes, lockFile>>

\* main of push_sightmap_snapshot_to_supabase: snapshot only
main_sightmap_v1_run(propertyId, snapshotDate, payload) ==
    LET units == extractUnits_v1(payload)
    IN  /\ unit_snapshots' = upsertSnapshot(unit_snapshots, propertyId, snapshotDate, units)
        /\ UNCHANGED unit_events
        /\ last' = Ran("push_sightmap_snapshot_to_supabase", propertyId, snapshotDate,
                       "", payload, units, HasSnapshot(unit_snapshots, propertyId),
                       <<>>, NoDiff, "done")

\* main of push_sightmap_snapshot_to_supabase, as one serialized run
main_sightmap_v1(propertyId, snapshotDate, payload) ==
    /\ runs < MaxRuns
    /\ runs' = runs + 1
    /\ main_sightmap_v1_run(propertyId, snapshotDate, payload)
    /\ UNCHANGED <<fn, proc, unit_changes, lockFile>>

\* getLastTwoSnapshots that leaves SNAPSHOT_DATE out of the query
getLastTwoSnapshots_unfiltered(rows, propertyId, SNAPSHOT_DATE) ==
    LET idx == {i \in DOMAIN rows : rows[i].property_id = propertyId}
        rest == idx \ {LatestIdx(rows, idx)}
    IN  IF idx = {} THEN <<>>
        ELSE IF rest = {} THEN <<Latest(rows, idx)>>
        ELSE <<Latest(rows, idx), Latest(rows, rest)>>

\* getLastTwoSnapshots of diff_snapshots_to_unit_events; SNAPSHOT_DATE 0 is the
\* unset (empty) environment variable
getLastTwoSnapshots(rows, propertyId, SNAPSHOT_DATE) ==
    LET idx == {i \in DOMAIN rows :
                  /\ rows[i].property_id = propertyId
                  /\ (SNAPSHOT_DATE # 0 => rows[i].snapshot_date <= SNAPSHOT_DATE)}
        rest == idx \ {LatestIdx(rows, idx)}
    IN  IF idx = {} THEN <<>>
        ELSE IF rest = {} THEN <<Latest(rows, idx)>>
        ELSE <<Latest(rows, idx), Latest(rows, rest)>>

\* what the loop body of main of diff_snapshots_to_unit_events does to the store
\* for one property (EVENT_SOURCE defaults to "snapshot")
main_diff_snapshots_run(propertyId, SNAPSHOT_DATE) ==
    LET snaps == getLastTwoSnapshots(unit_snapshots, propertyId, SNAPSHOT_DATE)
        latest == snaps[1]
        prev == snaps[2]
        prevMap == buildMap(prev.units_json)
        currMap == buildMap(latest.units_json)
        d == diffKeys(prevMap, currMap)
    IN  /\ UNCHANGED unit_snapshots
        /\ IF Len(snaps) < 2
           THEN \* skip (need 2 snapshots)
                /\ UNCHANGED unit_events
                /\ last' = Ran("diff_snapshots_to_unit_events", propertyId,
                               IF snaps = <<>> THEN 0 ELSE latest.snapshot_date,
                               "snapshot", <<>>,
                               IF snaps = <<>> THEN <<>> ELSE latest.units_json,
                               FALSE, <<>>, NoDiff, "skip")
           ELSE /\ unit_events' =
                      insertEvents(
                          deleteEventsForDay(unit_events, propertyId,
                                             latest.snapshot_date, "snapshot"),
                          EventsOfDiff(propertyId, latest.snapshot_date, d.appeared,
                                       d.disappeared, currMap, "snapshot"))
                /\ last' = Ran("diff_snapshots_to_unit_events", propertyId,
                               latest.snapshot_date, "snapshot", <<>>,
                               latest.units_json, TRUE, prev.units_json, d, "done")

\* the loop body of main of diff_snapshots_to_unit_events, as one serialized run
main_diff_snapshots(propertyId, SNAPSHOT_DATE) ==
    /\ runs < MaxRuns
    /\ runs' = runs + 1
    /\ main_diff_snapshots_run(propertyId, SNAPSHOT_DATE)
    /\ UNCHANGED <<fn, proc, unit_changes, lockFile>>

-----------------------------------------------------------------------------
(* Inputs *)

Properties == {"p1", "p2"}

Dates == {1, 2}

N101 == <<"1", "0", "1">>

N102 == <<"1", "0", "2">>

N103 == <<"1", "0", "3">>

Padded(n) == <<" ">> \o n \o <<" ">>

Price1 == <<"9", "5", "0">>

Price2 == <<"9", "9", "9">>

\* a unit as extractAvailableUnitsFromDom of run_rentcafe_all_with_events builds it
RentCafeUnit(n) == Unit(Null, UnitPrefix \o n, n, Price1)

\* a unit as the DOM extractors of the RentCafe v6 and ProspectPortal pushers build it
DomUnit(n, price) == Unit(UnitPrefix \o n, UnitPrefix \o n, n, price)

\* a unit as parseFloorplansFromHtml of run_rentcafe_all builds it when the
\* floorplan fallback is enabled
FloorplanUnit(name) ==
    Unit(Null, <<"f", "l", "o", "o", "r", "p", "l", "a", "n", ":">> \o name, name, Null)

\* a raw unit of the SightMap landing-page payload
SightmapRaw(id, n, price) == [id |-> id, unit_number |-> n, price |-> price]

\* what scrapeRentCafeUrls returns
RentCafeInputs ==
    {<<RentCafeUnit(N101), RentCafeUnit(N102)>>,
     <<RentCafeUnit(N102), RentCafeUnit(N103)>>,
     <<>>}

\* the domUnits of the pages fetched by push_rentcafe_snapshot_to_supabase_v6
DomInputs ==
    {<<DomUnit(N101, Price1), DomUnit(N102, Price1)>>,
     <<DomUnit(N102, Price1), DomUnit(N103, Price1), DomUnit(N102, Price2)>>,
     <<>>}

\* what scrapeProspectPortalUnits returns
ProspectPortalInputs ==
    {<<DomUnit(N101, Price1), DomUnit(N102, Price1)>>,
     <<DomUnit(N102, Price1), DomUnit(N103, Price1)>>,
     <<>>}

\* payload.data.units of the SightMap API
SightmapPayloads ==
    {<<SightmapRaw(<<"7">>, N101, Price1), SightmapRaw(<<"8">>, Padded(N102), Price1)>>,
     <<SightmapRaw(<<"8">>, N102, Price1), SightmapRaw(<<"9">>, N103, Price1),
       SightmapRaw(Null, Null, Null)>>,
     <<SightmapRaw(<<"7">>, N101, Price1), SightmapRaw(<<"8">>, N101, Price2)>>,
     <<>>}

-----------------------------------------------------------------------------
(* Serialized runs of the scripts against one store *)

FnOff == [kind |-> "off"]

ProcOff == [kind |-> "off"]

Init ==
    /\ unit_changes = <<>>
    /\ lockFile = FALSE
    /\ unit_snapshots = <<>>
    /\ unit_events = <<>>
    /\ last = NoRun
    /\ runs = 0
    /\ fn = FnOff
    /\ proc = ProcOff

Next ==
    \/ \E p \in Properties, d \in Dates, u \in RentCafeInputs : runOneProperty(p, d, u)
    \/ \E p \in Properties, d \in Dates, u \in DomInputs : main_rentcafe_v6(p, d, u)
    \/ \E p \in Properties, d \in Dates, u \in ProspectPortalInputs :
          main_prospectportal_v3(p, d, u)
    \/ \E p \in Properties, d \in Dates, u \in SightmapPayloads :
          main_sightmap_v2(p, d, u)
    \/ \E p \in Properties, d \in Dates, u \in SightmapPayloads :
          main_sightmap_v1(p, d, u)
    \/ \E p \in Properties, d \in Dates \cup {0} : main_diff_snapshots(p, d)

Spec == Init /\ [][Next]_vars

-----------------------------------------------------------------------------
(* The pure functions of the diff engine and the key normalizers, applied   *)
(* to inputs drawn at the initial state.                                    *)

MaxListLen == 2

MaxPad == 1

\* k blanks
Spaces(k) == [i \in 1..k |-> " "]

\* units as the stored units_json of the different writers carry them
UnitCatalog ==
    {RentCafeUnit(N101), DomUnit(N101, Price2), DomUnit(N102, Price1),
     Unit(Null, <<"7">>, Null, Price1),
     Unit(UnitPrefix \o N103, UnitPrefix \o N103, <<>>, Price1),
     FloorplanUnit(<<"A", "1">>)}

\* unit lists a diff function is called with, the missing list included
UnitLists == UNION {[1..n -> UnitCatalog] : n \in 0..MaxListLen} \cup {NullArr}

\* unit_number values of a raw or stored record
UnitNumbers ==
    {Null} \cup {Spaces(j) \o n \o Spaces(k) : n \in {<<>>, N101}, j, k \in 0..MaxPad}

\* records a key normalizer is called with
RawRecords ==
    {Unit(key, id, n, Price1) :
        key \in {Null, UnitPrefix \o N102},
        id \in {Null, <<"7">>, UnitPrefix \o N103},
        n \in UnitNumbers}

FnInputs ==
    {[kind |-> "lists", prev |-> a, curr |-> b] : a, b \in UnitLists}
        \cup {[kind |-> "record", record |-> u] : u \in RawRecords}

Diffed(f, result) ==
    [kind |-> "diff", f |-> f, prev |-> fn.prev, curr |-> fn.curr, result |-> result]

Keyed(f, key) ==
    [kind |-> "key", f |-> f, record |-> fn.record, key |-> key]

\* diffUnitKeys(prevUnits, currUnits) of run_rentcafe_all_with_events
call_diffUnitKeys ==
    /\ fn.kind = "lists"
    /\ fn' = Diffed("diffUnitKeys", diffUnitKeys(fn.prev, fn.curr))
    /\ UNCHANGED <<unit_snapshots, unit_events, last, runs, proc, unit_changes, lockFile>>

\* diffKeys(prevUnits, currUnits) of the ProspectPortal and RentCafe v6 pushers
call_diffKeysOfUnits ==
    /\ fn.kind = "lists"
    /\ fn' = Diffed("diffKeysOfUnits", diffKeysOfUnits(fn.prev, fn.curr))
    /\ UNCHANGED <<unit_snapshots, unit_events, last, runs, proc, unit_changes, lockFile>>

\* diffUnits(prevUnits, currUnits) of push_sightmap_snapshot_to_supabase_v2
call_diffUnits ==
    /\ fn.kind = "lists"
    /\ fn' = Diffed("diffUnits", diffUnits(fn.prev, fn.curr))
    /\ UNCHANGED <<unit_snapshots, unit_events, last, runs, proc, unit_changes, lockFile>>

\* diffKeys(buildMap(prev.units_json), buildMap(latest.units_json)) of
\* diff_snapshots_to_unit_events
call_diffKeys ==
    /\ fn.kind = "lists"
    /\ fn' = Diffed("diffKeys", diffKeys(buildMap(fn.prev), buildMap(fn.curr)))
    /\ UNCHANGED <<unit_snapshots, unit_events, last, runs, proc, unit_changes, lockFile>>

\* normalizeUnitKey(u) of diff_snapshots_to_unit_events
call_normalizeUnitKey ==
    /\ fn.kind = "record"
    /\ fn' = Keyed("normalizeUnitKey", normalizeUnitKey(fn.record))
    /\ UNCHANGED <<unit_snapshots, unit_events, last, runs, proc, unit_changes, lockFile>>

\* unitKeyForEvents(u) of run_rentcafe_all_with_events
call_unitKeyForEvents ==
    /\ fn.kind = "record"
    /\ fn' = Keyed("unitKeyForEvents", unitKeyForEvents(fn.record))
    /\ UNCHANGED <<unit_snapshots, unit_events, last, runs, proc, unit_changes, lockFile>>

\* normalizeUnitKeyFromNumber(u.unit_number) of the ProspectPortal and RentCafe
\* v6 pushers
call_normalizeUnitKeyFromNumber ==
    /\ fn.kind = "record"
    /\ fn' = Keyed("normalizeUnitKeyFromNumber",
                   normalizeUnitKeyFromNumber(fn.record.unit_number))
    /\ UNCHANGED <<unit_snapshots, unit_events, last, runs, proc, unit_changes, lockFile>>

\* normalizeUnitKeyFromUnitNumber(u.unit_number) of
\* push_sightmap_snapshot_to_supabase_v2
call_normalizeUnitKeyFromUnitNumber ==
    /\ fn.kind = "record"
    /\ fn' = Keyed("normalizeUnitKeyFromUnitNumber",
                   normalizeUnitKeyFromUnitNumber(fn.record.unit_number))
    /\ UNCHANGED <<unit_snapshots, unit_events, last, runs, proc, unit_changes, lockFile>>

\* the prevUnits normalization of push_prospectportal_snapshot_to_supabase_v3 on a
\* stored record: the key it enters the diff with, Null when it is filtered out
call_normalizePrevUnits_v3 ==
    /\ fn.kind = "record"
    /\ fn' = LET r == normalizePrevUnits_v3(<<fn.record>>)
             IN  Keyed("normalizePrevUnits_v3",
                       IF r = <<>> THEN Null ELSE r[1].unit_key)
    /\ UNCHANGED <<unit_snapshots, unit_events, last, runs, proc, unit_changes, lockFile>>

\* the prevUnits normalization of push_rentcafe_snapshot_to_supabase_v6
call_normalizePrevUnits_v6 ==
    /\ fn.kind = "record"
    /\ fn' = LET r == normalizePrevUnits_v6(<<fn.record>>)
             IN  Keyed("normalizePrevUnits_v6",
                       IF r = <<>> THEN Null ELSE r[1].unit_key)
    /\ UNCHANGED <<unit_snapshots, unit_events, last, runs, proc, unit_changes, lockFile>>

EventsBuilt(f, events) ==
    [kind |-> "events", f |-> f, prev |-> fn.prev, curr |-> fn.curr, events |-> events]

\* diffUnitKeys and the events array of writeEvents of run_rentcafe_all_with_events
call_writeEvents ==
    /\ fn.kind = "lists"
    /\ fn.curr # NullArr
    /\ fn' = LET d == diffUnitKeys(fn.prev, fn.curr)
             IN  EventsBuilt("diffUnitKeys",
                     EventsOfRentCafe("p1", 1, d.appeared, d.disappeared, "snapshot"))
    /\ UNCHANGED <<unit_snapshots, unit_events, last, runs, proc, unit_changes, lockFile>>

\* diffKeys and the events array of main of the ProspectPortal and RentCafe v6
\* pushers
call_eventsOfPusher ==
    /\ fn.kind = "lists"
    /\ fn.curr # NullArr
    /\ fn' = LET d == diffKeysOfUnits(fn.prev, fn.curr)
             IN  EventsBuilt("diffKeysOfUnits",
                     EventsOfPusher("p1", 1, d.appeared, d.disappeared, fn.curr,
                                    "prospectportal"))
    /\ UNCHANGED <<unit_snapshots, unit_events, last, runs, proc, unit_changes, lockFile>>

\* diffUnits and the events array of main of push_sightmap_snapshot_to_supabase_v2
call_eventsOfSightmap ==
    /\ fn.kind = "lists"
    /\ fn.curr # NullArr
    /\ fn' = LET d == diffUnits(fn.prev, fn.curr)
             IN  EventsBuilt("diffUnits",
                     EventsOfSightmap("p1", 1, d.appeared, d.disappeared, fn.curr,
                                      "sightmap"))
    /\ UNCHANGED <<unit_snapshots, unit_events, last, runs, proc, unit_changes, lockFile>>

\* buildMap, diffKeys and the rows array of writeEvents of
\* diff_snapshots_to_unit_events
call_writeEventsOfDiff ==
    /\ fn.kind = "lists"
    /\ fn' = LET currMap == buildMap(fn.curr)
                 d == diffKeys(buildMap(fn.prev), currMap)
             IN  EventsBuilt("diffKeys",
                     EventsOfDiff("p1", 1, d.appeared, d.disappeared, currMap,
                                  "snapshot"))
    /\ UNCHANGED <<unit_snapshots, unit_events, last, runs, proc, unit_changes, lockFile>>

InitFn ==
    /\ unit_changes = <<>>
    /\ lockFile = FALSE
    /\ unit_snapshots = <<>>
    /\ unit_events = <<>>
    /\ last = NoRun
    /\ runs = 0
    /\ fn \in FnInputs
    /\ proc = ProcOff

NextFn ==
    \/ call_diffUnitKeys
    \/ call_diffKeysOfUnits
    \/ call_diffUnits
    \/ call_diffKeys
    \/ call_normalizeUnitKey
    \/ call_unitKeyForEvents
    \/ call_normalizeUnitKeyFromNumber
    \/ call_normalizeUnitKeyFromUnitNumber
    \/ call_normalizePrevUnits_v3
    \/ call_normalizePrevUnits_v6
    \/ call_writeEvents
    \/ call_eventsOfPusher
    \/ call_eventsOfSightmap
    \/ call_writeEventsOfDiff

SpecFn == InitFn /\ [][NextFn]_vars

-----------------------------------------------------------------------------
(* Concurrent runs of push_prospectportal_snapshot_to_supabase_v3 for one    *)
(* property.  Every await of main is a step; a Supabase call is one request  *)
(* and takes effect at once.                                                 *)

Procs == {"run1", "run2"}

PROPERTY_ID == "p1"

\* main up to the test of unitsToday.length: the scrape returned unitsToday
main_v3_scrape(self, snapshotDate, unitsToday) ==
    /\ proc[self].pc = "start"
    /\ proc' = [proc EXCEPT ![self] =
                  [@ EXCEPT !.pc = IF unitsToday = <<>> THEN "exit2"
                                   ELSE "getLatestSnapshot",
                            !.snapshotDate = snapshotDate,
                            !.unitsToday = unitsToday]]
    /\ UNCHANGED <<unit_snapshots, unit_events, last, runs, fn, unit_changes, lockFile>>

\* await getLatestSnapshot(PROPERTY_ID, snapshotDate), then the diff and the
\* events array computed from what it returned
main_v3_getLatestSnapshot(self) ==
    LET me == proc[self]
        prevSnap == getLatestSnapshot(unit_snapshots, PROPERTY_ID, me.snapshotDate)
        prevUnits == normalizePrevUnits_v3(UnitsOf(prevSnap))
        d == diffKeysOfUnits(prevUnits, me.unitsToday)
    IN  /\ me.pc = "getLatestSnapshot"
        /\ proc' = [proc EXCEPT ![self] =
                      [@ EXCEPT !.pc = "upsertSnapshot",
                                !.prevUnits = prevUnits,
                                !.events = EventsOfPusher(PROPERTY_ID, me.snapshotDate,
                                               d.appeared, d.disappeared,
                                               me.unitsToday, "prospectportal")]]
        /\ UNCHANGED <<unit_snapshots, unit_events, last, runs, fn, unit_changes, lockFile>>

\* await upsertSnapshot({ propertyId, snapshotDate, units: unitsToday })
main_v3_upsertSnapshot(self) ==
    LET me == proc[self]
    IN  /\ me.pc = "upsertSnapshot"
        /\ unit_snapshots' =
              upsertSnapshot(unit_snapshots, PROPERTY_ID, me.snapshotDate, me.unitsToday)
        /\ proc' = [proc EXCEPT ![self].pc = "delete"]
        /\ UNCHANGED <<unit_events, last, runs, fn, unit_changes, lockFile>>

\* replaceEventsForDay: the delete request
main_v3_deleteEvents(self) ==
    LET me == proc[self]
    IN  /\ me.pc = "delete"
        /\ unit_events' = deleteEventsForDay(unit_events, PROPERTY_ID, me.snapshotDate,
                                             "prospectportal")
        /\ proc' = [proc EXCEPT ![self].pc =
                      IF me.events = <<>> THEN "done" ELSE "insert"]
        /\ UNCHANGED <<unit_snapshots, last, runs, fn, unit_changes, lockFile>>

\* replaceEventsForDay: the insert request
main_v3_insertEvents(self) ==
    LET me == proc[self]
    IN  /\ me.pc = "insert"
        /\ unit_events' = insertEvents(unit_events, me.events)
        /\ proc' = [proc EXCEPT ![self].pc = "done"]
        /\ UNCHANGED <<unit_snapshots, last, runs, fn, unit_changes, lockFile>>

InitConc ==
    /\ unit_changes = <<>>
    /\ lockFile = FALSE
    /\ unit_snapshots = <<>>
    /\ unit_events = <<>>
    /\ last = NoRun
    /\ runs = 0
    /\ fn = FnOff
    /\ proc = [self \in Procs |->
                 [pc |-> "start", snapshotDate |-> 0, unitsToday |-> <<>>,
                  prevUnits |-> <<>>, events |-> <<>>]]

NextConc ==
    \E self \in Procs :
        \/ \E d \in Dates, u \in ProspectPortalInputs : main_v3_scrape(self, d, u)
        \/ main_v3_getLatestSnapshot(self)
        \/ main_v3_upsertSnapshot(self)
        \/ main_v3_deleteEvents(self)
        \/ main_v3_insertEvents(self)

SpecConc == InitConc /\ [][NextConc]_vars

-----------------------------------------------------------------------------
(* Batches.  A batch process runs its properties one after the other, one    *)
(* store request or one child script per step; any request may fail.  The    *)
(* field start keeps the two tables as they were when the current property's *)
(* run began, attempted and failed the properties tried and reported failed. *)

\* the local variables of a process that has not started a run
Idle(script, todo, today) ==
    [script |-> script, pc |-> "loop", todo |-> todo, today |-> today,
     attempted |-> <<>>, failed |-> <<>>, id |-> "", units |-> <<>>,
     prevUnits |-> <<>>, events |-> <<>>, thrownAt |-> "", tries |-> 0,
     abandoned |-> <<>>, hasLock |-> FALSE,
     start |-> [unit_snapshots |-> <<>>, unit_events |-> <<>>]]

\* Faulty variant of Thrown: the error is logged and the run is not ended
Thrown_ignored(self, at) ==
    [proc EXCEPT ![self].thrownAt = at]

\* main().catch of run_rentcafe_all_with_events: the error of a step ends the
\* process with exit code 1
Thrown(self, at) ==
    [proc EXCEPT ![self].pc = "exit1", ![self].thrownAt = at]

\* for (const p of props) in main of run_rentcafe_all_with_events, up to the
\* call of scrapeRentCafeUrls in runOneProperty
main_forProps(self) ==
    LET me == proc[self]
    IN  /\ me.script = "run_rentcafe_all_with_events"
        /\ me.pc = "loop"
        /\ proc' = IF me.todo = <<>>
                   THEN [proc EXCEPT ![self].pc = "exit0"]
                   ELSE [proc EXCEPT ![self] =
                           [@ EXCEPT !.pc = "scrape",
                                     !.thrownAt = "",
                                     !.id = Head(me.todo),
                                     !.todo = Tail(me.todo),
                                     !.attempted = Append(me.attempted, Head(me.todo)),
                                     !.start = [unit_snapshots |-> unit_snapshots,
                                                unit_events |-> unit_events]]]
        /\ UNCHANGED <<unit_snapshots, unit_events, last, runs, fn, unit_changes, lockFile>>

\* await scrapeRentCafeUrls(urls): page.goto throws, or the units are returned
runOneProperty_scrape(self, ok, units) ==
    LET me == proc[self]
    IN  /\ me.script = "run_rentcafe_all_with_events"
        /\ me.pc = "scrape"
        /\ proc' = IF ok
                   THEN [proc EXCEPT ![self].pc = "upsertSnapshot",
                                     ![self].units = units]
                   ELSE Thrown(self, "scrape")
        /\ UNCHANGED <<unit_snapshots, unit_events, last, runs, fn, unit_changes, lockFile>>

\* await upsertSnapshot(id, today, units)
runOneProperty_upsertSnapshot(self, ok) ==
    LET me == proc[self]
    IN  /\ me.script = "run_rentcafe_all_with_events"
        /\ me.pc = "upsertSnapshot"
        /\ IF ok
           THEN /\ unit_snapshots' = upsertSnapshot(unit_snapshots, me.id, me.today,
                                                    me.units)
                /\ proc' = [proc EXCEPT ![self].pc = "getPreviousSnapshot"]
           ELSE /\ UNCHANGED unit_snapshots
                /\ proc' = Thrown(self, "upsertSnapshot")
        /\ UNCHANGED <<unit_events, last, runs, fn, unit_changes, lockFile>>

\* await getPreviousSnapshot(id, today), diffUnitKeys, and the events array that
\* writeEvents builds from the diff
runOneProperty_getPreviousSnapshot(self, ok) ==
    LET me == proc[self]
        prevUnits == UnitsOf(getPreviousSnapshot(unit_snapshots, me.id, me.today))
        d == diffUnitKeys(prevUnits, me.units)
    IN  /\ me.script = "run_rentcafe_all_with_events"
        /\ me.pc = "getPreviousSnapshot"
        /\ proc' = IF ok
                   THEN [proc EXCEPT ![self].pc = "delete",
                                     ![self].prevUnits = prevUnits,
                                     ![self].events =
                                         EventsOfRentCafe(me.id, me.today, d.appeared,
                                                          d.disappeared, "snapshot")]
                   ELSE Thrown(self, "getPreviousSnapshot")
        /\ UNCHANGED <<unit_snapshots, unit_events, last, runs, fn, unit_changes, lockFile>>

\* writeEvents: the delete request
writeEvents_delete(self, ok) ==
    LET me == proc[self]
    IN  /\ me.script = "run_rentcafe_all_with_events"
        /\ me.pc = "delete"
        /\ IF ok
           THEN /\ unit_events' = deleteEventsForDay(unit_events, me.id, me.today,
                                                     "snapshot")
                /\ proc' = [proc EXCEPT ![self].pc =
                              IF me.events = <<>> THEN "loop" ELSE "insert"]
           ELSE /\ UNCHANGED unit_events
                /\ proc' = Thrown(self, "delete")
        /\ UNCHANGED <<unit_snapshots, last, runs, fn, unit_changes, lockFile>>

\* writeEvents: the insert request
writeEvents_insert(self, ok) ==
    LET me == proc[self]
    IN  /\ me.script = "run_rentcafe_all_with_events"
        /\ me.pc = "insert"
        /\ IF ok
           THEN /\ unit_events' = insertEvents(unit_events, me.events)
                /\ proc' = [proc EXCEPT ![self].pc = "loop"]
           ELSE /\ UNCHANGED unit_events
                /\ proc' = Thrown(self, "insert")
        /\ UNCHANGED <<unit_snapshots, last, runs, fn, unit_changes, lockFile>>

\* one step of run_rentcafe_all_with_events
RentCafeWithEventsStep(self) ==
    \/ main_forProps(self)
    \/ \E ok \in BOOLEAN, u \in RentCafeInputs : runOneProperty_scrape(self, ok, u)
    \/ \E ok \in BOOLEAN : runOneProperty_upsertSnapshot(self, ok)
    \/ \E ok \in BOOLEAN : runOneProperty_getPreviousSnapshot(self, ok)
    \/ \E ok \in BOOLEAN : writeEvents_delete(self, ok)
    \/ \E ok \in BOOLEAN : writeEvents_insert(self, ok)

\* RENTCAFE_URL_RETRIES of run_rentcafe_all: retries per URL after the first attempt
URL_RETRIES == 2

\* catch (err) of the property loop of run_rentcafe_all: the failure is counted
\* and the loop goes on
Caught(self, at) ==
    [proc EXCEPT ![self].pc = "loop",
                 ![self].failed = Append(proc[self].failed, proc[self].id),
                 ![self].thrownAt = at]

\* for (const p of props) in main of run_rentcafe_all, up to the first page.goto
\* of scrapeUrlsWithSharedBrowser (a property has one URL)
main_all_forProps(self) ==
    LET me == proc[self]
    IN  /\ me.script = "run_rentcafe_all"
        /\ me.pc = "loop"
        /\ proc' = IF me.todo = <<>>
                   THEN [proc EXCEPT ![self].pc = "exit0"]
                   ELSE [proc EXCEPT ![self] =
                           [@ EXCEPT !.pc = "goto",
                                     !.thrownAt = "",
                                     !.id = Head(me.todo),
                                     !.todo = Tail(me.todo),
                                     !.attempted = Append(me.attempted, Head(me.todo)),
                                     !.tries = 0,
                                     !.units = <<>>,
                                     !.start = [unit_snapshots |-> unit_snapshots,
                                                unit_events |-> unit_events]]]
        /\ UNCHANGED <<unit_snapshots, unit_events, last, runs, fn, unit_changes, lockFile>>

\* one page.goto of gotoWithRetries of run_rentcafe_all: two strategies per
\* attempt, URL_RETRIES + 1 attempts; when the last one fails the error is
\* caught in scrapeUrlsWithSharedBrowser, which returns without units
gotoWithRetries_all(self, ok) ==
    LET me == proc[self]
    IN  /\ me.script = "run_rentcafe_all"
        /\ me.pc = "goto"
        /\ proc' = IF ok THEN [proc EXCEPT ![self].pc = "extract"]
                   ELSE IF me.tries + 1 < 2 * (URL_RETRIES + 1)
                        THEN [proc EXCEPT ![self].tries = me.tries + 1]
                   ELSE [proc EXCEPT ![self].tries = me.tries + 1,
                                     ![self].units = <<>>,
                                     ![self].thrownAt = "goto",
                                     ![self].pc = "upsertSnapshot"]
        /\ UNCHANGED <<unit_snapshots, unit_events, last, runs, fn, unit_changes, lockFile>>

\* extractAvailableUnitsFromDom in scrapeUrlsWithSharedBrowser
scrapeUrlsWithSharedBrowser_extract(self, units) ==
    LET me == proc[self]
    IN  /\ me.script = "run_rentcafe_all"
        /\ me.pc = "extract"
        /\ proc' = [proc EXCEPT ![self].pc = "upsertSnapshot", ![self].units = units]
        /\ UNCHANGED <<unit_snapshots, unit_events, last, runs, fn, unit_changes, lockFile>>

\* the kill-switch of main of run_rentcafe_all: the property's time is over
\* while the scrape is going on
main_all_timeout(self) ==
    LET me == proc[self]
    IN  /\ me.script = "run_rentcafe_all"
        /\ me.pc \in {"goto", "extract"}
        /\ proc' = [Caught(self, "timeout") EXCEPT
                        ![self].abandoned =
                            Append(me.abandoned,
                                   [id |-> me.id, running |-> TRUE,
                                    rows |-> SelectSeq(unit_snapshots,
                                                LAMBDA r : r.property_id = me.id)])]
        /\ UNCHANGED <<unit_snapshots, unit_events, last, runs, fn, unit_changes, lockFile>>

\* a scrape that upserts its units itself when it ends
scrapeUrlsWithSharedBrowser_upserts(self) ==
    LET me == proc[self]
    IN  /\ me.script = "run_rentcafe_all"
        /\ \E i \in DOMAIN me.abandoned :
              /\ me.abandoned[i].running
              /\ proc' = [proc EXCEPT ![self].abandoned[i].running = FALSE]
              /\ unit_snapshots' = upsertSnapshot(unit_snapshots, me.abandoned[i].id,
                                                  me.today, <<>>)
        /\ UNCHANGED <<unit_events, last, runs, fn, unit_changes, lockFile>>

\* the scrapeUrlsWithSharedBrowser promise that lost the Promise.race of main goes
\* on in its own context and page while main handles the next properties; when
\* it ends (it returns its units, or fails once main has closed the browser) the
\* race is already settled and nobody receives its result
scrapeUrlsWithSharedBrowser_abandoned(self) ==
    LET me == proc[self]
    IN  /\ me.script = "run_rentcafe_all"
        /\ \E i \in DOMAIN me.abandoned :
              /\ me.abandoned[i].running
              /\ proc' = [proc EXCEPT ![self].abandoned[i].running = FALSE]
        /\ UNCHANGED <<unit_snapshots, unit_events, last, runs, fn, unit_changes, lockFile>>

\* await upsertSnapshot({ propertyId, snapshotDate, units }) in main of
\* run_rentcafe_all
main_all_upsertSnapshot(self, ok) ==
    LET me == proc[self]
    IN  /\ me.script = "run_rentcafe_all"
        /\ me.pc = "upsertSnapshot"
        /\ IF ok
           THEN /\ unit_snapshots' = upsertSnapshot(unit_snapshots, me.id, me.today,
                                                    me.units)
                /\ proc' = [proc EXCEPT ![self].pc = "loop"]
           ELSE /\ UNCHANGED unit_snapshots
                /\ proc' = Caught(self, "upsertSnapshot")
        /\ UNCHANGED <<unit_events, last, runs, fn, unit_changes, lockFile>>

\* one step of run_rentcafe_all
RentCafeAllStep(self) ==
    \/ main_all_forProps(self)
    \/ \E ok \in BOOLEAN : gotoWithRetries_all(self, ok)
    \/ \E u \in RentCafeInputs : scrapeUrlsWithSharedBrowser_extract(self, u)
    \/ main_all_timeout(self)
    \/ scrapeUrlsWithSharedBrowser_abandoned(self)
    \/ \E ok \in BOOLEAN : main_all_upsertSnapshot(self, ok)

\* if (Test-Path $lockFile) { ...; exit 0 } of run_sightmap_all.ps1, before the
\* try block
ps1_TestPath(self) ==
    LET me == proc[self]
    IN  /\ me.script = "run_sightmap_all.ps1"
        /\ me.pc = "start"
        /\ proc' = [proc EXCEPT ![self].pc = IF lockFile THEN "exit0" ELSE "NewItem"]
        /\ UNCHANGED <<unit_snapshots, unit_events, last, runs, fn, unit_changes, lockFile>>

\* New-Item -ItemType File -Path $lockFile -Force: creates the lock file, or
\* replaces the one that is there
ps1_NewItem(self) ==
    LET me == proc[self]
    IN  /\ me.script = "run_sightmap_all.ps1"
        /\ me.pc = "NewItem"
        /\ lockFile' = TRUE
        /\ proc' = [proc EXCEPT ![self].pc = "loop", ![self].hasLock = TRUE]
        /\ UNCHANGED <<unit_snapshots, unit_events, last, runs, fn, unit_changes>>

\* a finally block that is skipped when the try block has thrown
ps1_finally_skippedOnThrow(self) ==
    LET me == proc[self]
    IN  /\ me.script = "run_sightmap_all.ps1"
        /\ me.pc = "finally"
        /\ lockFile' = (lockFile /\ me.thrownAt # "")
        /\ proc' = [proc EXCEPT ![self].pc = IF me.thrownAt = "" THEN "exit0"
                                             ELSE "exit1"]
        /\ UNCHANGED <<unit_snapshots, unit_events, last, runs, fn, unit_changes>>

\* the finally block, entered when the try block ends or throws: the lock file
\* is removed if it is there, then the script ends, with the error if one was
\* thrown
ps1_finally(self) ==
    LET me == proc[self]
    IN  /\ me.script = "run_sightmap_all.ps1"
        /\ me.pc = "finally"
        /\ lockFile' = FALSE
        /\ proc' = [proc EXCEPT ![self].pc = IF me.thrownAt = "" THEN "exit0"
                                             ELSE "exit1"]
        /\ UNCHANGED <<unit_snapshots, unit_events, last, runs, fn, unit_changes>>

\* foreach ($f in $envFiles) in the try block and the test that the env file
\* exists; found tells whether Test-Path $f finds it
ps1_foreach(self, found) ==
    LET me == proc[self]
    IN  /\ me.script = "run_sightmap_all.ps1"
        /\ me.pc = "loop"
        /\ proc' = IF me.todo = <<>>
                   THEN [proc EXCEPT ![self].pc = "finally"]
                   ELSE [proc EXCEPT ![self] =
                           [@ EXCEPT !.pc = IF found THEN "fetch" ELSE "finally",
                                     !.thrownAt = IF found THEN "" ELSE "envFile",
                                     !.tries = 0,
                                     !.id = Head(me.todo),
                                     !.todo = Tail(me.todo),
                                     !.attempted = Append(me.attempted, Head(me.todo)),
                                     !.start = [unit_snapshots |-> unit_snapshots,
                                                unit_events |-> unit_events]]]
        /\ UNCHANGED <<unit_snapshots, unit_events, last, runs, fn, unit_changes, lockFile>>

\* const attempts in fetchSightmapLandingPage
attempts == 3

\* fetchSightmapLandingPage with a loop that never gives up
fetchSightmapLandingPage_unbounded(self, ok) ==
    LET me == proc[self]
    IN  /\ me.script = "run_sightmap_all.ps1"
        /\ me.pc = "fetch"
        /\ me.tries <= attempts
        /\ proc' = IF ok THEN [proc EXCEPT ![self].pc = "push"]
                   ELSE [proc EXCEPT ![self].tries = me.tries + 1]
        /\ UNCHANGED <<unit_snapshots, unit_events, last, runs, fn, unit_changes, lockFile>>

\* one attempt of fetchSightmapLandingPage in the pusher the script starts:
\* a response that parses is returned to main; a failed attempt is retried
\* until the attempts are used up, then the last error is thrown, the pusher
\* exits with code 1 and the script throws
fetchSightmapLandingPage(self, ok) ==
    LET me == proc[self]
    IN  /\ me.script = "run_sightmap_all.ps1"
        /\ me.pc = "fetch"
        /\ proc' = IF ok THEN [proc EXCEPT ![self].pc = "push"]
                   ELSE IF me.tries + 1 < attempts
                        THEN [proc EXCEPT ![self].tries = me.tries + 1]
                   ELSE [proc EXCEPT ![self].tries = me.tries + 1,
                                     ![self].thrownAt = "fetch",
                                     ![self].pc = "finally"]
        /\ UNCHANGED <<unit_snapshots, unit_events, last, runs, fn, unit_changes, lockFile>>

\* main of push_sightmap_snapshot_to_supabase_v2.js on the fetched payload and
\* the test of $LASTEXITCODE: the upsert fails (exit code 1), or main runs on the
\* payload (exit code 2 when it has no units); a non-zero exit code is thrown
ps1_push(self, ok, payload) ==
    LET me == proc[self]
    IN  /\ me.script = "run_sightmap_all.ps1"
        /\ me.pc = "push"
        /\ IF ok
           THEN /\ main_sightmap_v2_run(me.id, me.today, payload)
                /\ proc' = IF extractUnits_v2(payload) = <<>>
                           THEN [Thrown(self, "push") EXCEPT ![self].pc = "finally"]
                           ELSE [proc EXCEPT ![self].pc = "diff"]
           ELSE /\ UNCHANGED <<unit_snapshots, unit_events, last>>
                /\ proc' = [Thrown(self, "push") EXCEPT ![self].pc = "finally"]
        /\ UNCHANGED <<runs, fn, unit_changes, lockFile>>

\* node diff_snapshots_to_unit_events.js with PROPERTY_ID and
\* EVENT_SOURCE = "snapshot", and the test of $LASTEXITCODE: main fails before its
\* loop (exit code 1), or the loop body runs for the property
ps1_diff(self, ok) ==
    LET me == proc[self]
    IN  /\ me.script = "run_sightmap_all.ps1"
        /\ me.pc = "diff"
        /\ IF ok
           THEN /\ main_diff_snapshots_run(me.id, 0)
                /\ proc' = [proc EXCEPT ![self].pc = "loop"]
           ELSE /\ UNCHANGED <<unit_snapshots, unit_events, last>>
                /\ proc' = [Thrown(self, "diff") EXCEPT ![self].pc = "finally"]
        /\ UNCHANGED <<runs, fn, unit_changes, lockFile>>

\* one step of run_sightmap_all.ps1
SightmapAllStep(self) ==
    \/ ps1_TestPath(self)
    \/ ps1_NewItem(self)
    \/ \E found \in BOOLEAN : ps1_foreach(self, found)
    \/ ps1_finally(self)
    \/ \E ok \in BOOLEAN : fetchSightmapLandingPage(self, ok)
    \/ \E ok \in BOOLEAN, u \in SightmapPayloads : ps1_push(self, ok, u)
    \/ \E ok \in BOOLEAN : ps1_diff(self, ok)

\* RENTCAFE_NAV_RETRIES of push_rentcafe_snapshot_to_supabase_v6: retries after
\* the first attempt
NAV_RETRIES == 2

\* the runner of one env file: it loads the file named by $EnvFile and starts the
\* pusher, up to the pusher's first page.goto; the file names one property
main_v6_start(self) ==
    LET me == proc[self]
    IN  /\ me.script = "push_rentcafe_snapshot_to_supabase_v6"
        /\ me.pc = "loop"
        /\ proc' = [proc EXCEPT ![self] =
                       [@ EXCEPT !.pc = "goto",
                                 !.thrownAt = "",
                                 !.id = Head(me.todo),
                                 !.todo = <<>>,
                                 !.attempted = <<Head(me.todo)>>,
                                 !.tries = 0,
                                 !.units = <<>>,
                                 !.events = <<>>,
                                 !.start = [unit_snapshots |-> unit_snapshots,
                                            unit_events |-> unit_events]]]
        /\ UNCHANGED <<unit_snapshots, unit_events, last, runs, fn, unit_changes, lockFile>>

\* one page.goto of gotoWithRetries of push_rentcafe_snapshot_to_supabase_v6:
\* NAV_RETRIES + 1 attempts, then the error is thrown and main fails
gotoWithRetries_v6(self, ok) ==
    LET me == proc[self]
    IN  /\ me.script = "push_rentcafe_snapshot_to_supabase_v6"
        /\ me.pc = "goto"
        /\ proc' = IF ok THEN [proc EXCEPT ![self].pc = "extract"]
                   ELSE IF me.tries + 1 < NAV_RETRIES + 1
                        THEN [proc EXCEPT ![self].tries = me.tries + 1]
                   ELSE [Thrown(self, "goto") EXCEPT ![self].tries = me.tries + 1]
        /\ UNCHANGED <<unit_snapshots, unit_events, last, runs, fn, unit_changes, lockFile>>

\* the rest of fetchPagePayload and the unitsToday loop of main
main_v6_unitsToday(self, domUnits) ==
    LET me == proc[self]
    IN  /\ me.script = "push_rentcafe_snapshot_to_supabase_v6"
        /\ me.pc = "extract"
        /\ proc' = [proc EXCEPT ![self].pc = "getLatestSnapshot",
                                ![self].units = BuildUnitsToday(domUnits)]
        /\ UNCHANGED <<unit_snapshots, unit_events, last, runs, fn, unit_changes, lockFile>>

\* await getLatestSnapshot(RENTCAFE_PROPERTY_ID, snapshotDate), the diff and the
\* events array
main_v6_getLatestSnapshot(self, ok) ==
    LET me == proc[self]
        prevSnap == getLatestSnapshot(unit_snapshots, me.id, me.today)
        prevUnits == normalizePrevUnits_v6(UnitsOf(prevSnap))
        d == diffKeysOfUnits(prevUnits, me.units)
    IN  /\ me.script = "push_rentcafe_snapshot_to_supabase_v6"
        /\ me.pc = "getLatestSnapshot"
        /\ proc' = IF ok
                   THEN [proc EXCEPT ![self].pc = "upsertSnapshot",
                                     ![self].prevUnits = prevUnits,
                                     ![self].events =
                                         EventsOfPusher(me.id, me.today, d.appeared,
                                                        d.disappeared, me.units,
                                                        "rentcafe")]
                   ELSE Thrown(self, "getLatestSnapshot")
        /\ UNCHANGED <<unit_snapshots, unit_events, last, runs, fn, unit_changes, lockFile>>

\* await upsertSnapshot({ propertyId, snapshotDate, units: unitsToday })
main_v6_upsertSnapshot(self, ok) ==
    LET me == proc[self]
    IN  /\ me.script = "push_rentcafe_snapshot_to_supabase_v6"
        /\ me.pc = "upsertSnapshot"
        /\ IF ok
           THEN /\ unit_snapshots' = upsertSnapshot(unit_snapshots, me.id, me.today,
                                                    me.units)
                /\ proc' = [proc EXCEPT ![self].pc = "delete"]
           ELSE /\ UNCHANGED unit_snapshots
                /\ proc' = Thrown(self, "upsertSnapshot")
        /\ UNCHANGED <<unit_events, last, runs, fn, unit_changes, lockFile>>

\* replaceEventsForDay of push_rentcafe_snapshot_to_supabase_v6: the delete request
replaceEventsForDay_v6_delete(self, ok) ==
    LET me == proc[self]
    IN  /\ me.script = "push_rentcafe_snapshot_to_supabase_v6"
        /\ me.pc = "delete"
        /\ IF ok
           THEN /\ unit_events' = deleteEventsForDay(unit_events, me.id, me.today,
                                                     "rentcafe")
                /\ proc' = [proc EXCEPT ![self].pc =
                              IF me.events = <<>> THEN "exit0" ELSE "insert"]
           ELSE /\ UNCHANGED unit_events
                /\ proc' = Thrown(self, "delete")
        /\ UNCHANGED <<unit_snapshots, last, runs, fn, unit_changes, lockFile>>

\* replaceEventsForDay of push_rentcafe_snapshot_to_supabase_v6: the insert request
replaceEventsForDay_v6_insert(self, ok) ==
    LET me == proc[self]
    IN  /\ me.script = "push_rentcafe_snapshot_to_supabase_v6"
        /\ me.pc = "insert"
        /\ IF ok
           THEN /\ unit_events' = insertEvents(unit_events, me.events)
                /\ proc' = [proc EXCEPT ![self].pc = "exit0"]
           ELSE /\ UNCHANGED unit_events
                /\ proc' = Thrown(self, "insert")
        /\ UNCHANGED <<unit_snapshots, last, runs, fn, unit_changes, lockFile>>

\* one step of push_rentcafe_snapshot_to_supabase_v6 run for one env file
RentCafeV6Step(self) ==
    \/ main_v6_start(self)
    \/ \E ok \in BOOLEAN : gotoWithRetries_v6(self, ok)
    \/ \E u \in DomInputs : main_v6_unitsToday(self, u)
    \/ \E ok \in BOOLEAN : main_v6_getLatestSnapshot(self, ok)
    \/ \E ok \in BOOLEAN : main_v6_upsertSnapshot(self, ok)
    \/ \E ok \in BOOLEAN : replaceEventsForDay_v6_delete(self, ok)
    \/ \E ok \in BOOLEAN : replaceEventsForDay_v6_insert(self, ok)

BatchScripts ==
    {"run_rentcafe_all_with_events", "run_rentcafe_all", "run_sightmap_all.ps1",
     "push_rentcafe_snapshot_to_supabase_v6"}

\* the scripts that loop over several properties
BatchLoops == {"run_rentcafe_all_with_events", "run_rentcafe_all", "run_sightmap_all.ps1"}

\* a batch over the two properties, in either order, on an empty store
\* the date of a run that ended before the batch started
Yesterday == 0

\* the tables as a completed run of push_rentcafe_snapshot_to_supabase_v6 for
\* Yesterday left them, the store having been empty before
EarlierRun(propertyId, domUnits) ==
    LET unitsToday == BuildUnitsToday(domUnits)
        d == diffKeysOfUnits(<<>>, unitsToday)
    IN  [unit_snapshots |-> upsertSnapshot(<<>>, propertyId, Yesterday, unitsToday),
         unit_events |->
             replaceEventsForDay(<<>>, propertyId, Yesterday, "rentcafe",
                                 EventsOfPusher(propertyId, Yesterday, d.appeared,
                                                d.disappeared, unitsToday,
                                                "rentcafe"))]

\* the stores a script can find: the loops start on an empty store and fill it
\* property by property; the single-property pusher may find an earlier run
StoresFor(script, propertyId) ==
    {[unit_snapshots |-> <<>>, unit_events |-> <<>>]}
        \cup IF script = "push_rentcafe_snapshot_to_supabase_v6"
             THEN {EarlierRun(propertyId, u) : u \in DomInputs \ {<<>>}}
             ELSE {}

InitBatch ==
    /\ unit_changes = <<>>
    /\ lockFile = FALSE
    /\ runs = 0
    /\ fn = FnOff
    /\ \E script \in BatchScripts, today \in Dates,
          todo \in {<<"p1", "p2">>, <<"p2", "p1">>} :
          \E store \in StoresFor(script, Head(todo)) :
              /\ unit_snapshots = store.unit_snapshots
              /\ unit_events = store.unit_events
              /\ proc = [self \in {"batch"} |->
                            [Idle(script, todo, today) EXCEPT
                                !.start = store,
                                !.pc = IF script = "run_sightmap_all.ps1"
                                       THEN "start" ELSE "loop"]]
    /\ last = NoRun

NextBatch ==
    \/ RentCafeWithEventsStep("batch")
    \/ RentCafeAllStep("batch")
    \/ SightmapAllStep("batch")
    \/ RentCafeV6Step("batch")

SpecBatch == InitBatch /\ [][NextBatch]_vars

-----------------------------------------------------------------------------
(* Two runs of run_rentcafe_all_with_events in single-property mode, one    *)
(* for each property, on the same day; their requests interleave            *)

\* a whole runOneProperty on the tables of store
runOnePropertyOn(store, id, today, units) ==
    LET snaps == upsertSnapshot(store.unit_snapshots, id, today, units)
        prevUnits == UnitsOf(getPreviousSnapshot(snaps, id, today))
        d == diffUnitKeys(prevUnits, units)
    IN  [unit_snapshots |-> snaps,
         unit_events |->
             insertEvents(deleteEventsForDay(store.unit_events, id, today, "snapshot"),
                          EventsOfRentCafe(id, today, d.appeared, d.disappeared,
                                           "snapshot"))]

\* what scrapeRentCafeUrls returned for both properties on Yesterday
UnitsYesterday == <<RentCafeUnit(N101), RentCafeUnit(N102)>>

\* the tables the two runs find: Yesterday's runs of both properties
StorePar ==
    runOnePropertyOn(
        runOnePropertyOn([unit_snapshots |-> <<>>, unit_events |-> <<>>],
                         "p1", Yesterday, UnitsYesterday),
        "p2", Yesterday, UnitsYesterday)

\* RENTCAFE_PROPERTY_ID of each of the two processes
PropertyOf == [run1 |-> "p1", run2 |-> "p2"]

InitPar ==
    /\ unit_changes = <<>>
    /\ lockFile = FALSE
    /\ unit_snapshots = StorePar.unit_snapshots
    /\ unit_events = StorePar.unit_events
    /\ runs = 0
    /\ fn = FnOff
    /\ \E today \in Dates :
          proc = [self \in {"run1", "run2"} |->
                    [Idle("run_rentcafe_all_with_events", <<PropertyOf[self]>>, today)
                        EXCEPT !.start = StorePar]]
    /\ last = NoRun

NextPar ==
    \/ RentCafeWithEventsStep("run1")
    \/ RentCafeWithEventsStep("run2")

SpecPar == InitPar /\ [][NextPar]_vars

\* ---------------------------------------------------------------------------
\* The batch differs on a store that earlier runs have filled
\* ---------------------------------------------------------------------------

\* the rows array built in writeEvents of the v2 differ: the unit number of a
\* disappeared key is looked up in prevMap first
EventsOfDiff_v2(propertyId, eventDate, appearedKeys, disappearedKeys, currMap, prevMap, source) ==
    [i \in DOMAIN appearedKeys |->
        EventRow(propertyId, eventDate, appearedKeys[i],
                 Or(Or(MapGet(currMap, appearedKeys[i]),
                       unitNumberFromKey(appearedKeys[i])), Null),
                 "appeared", source)]
    \o
    [i \in DOMAIN disappearedKeys |->
        EventRow(propertyId, eventDate, disappearedKeys[i],
                 Or(Or(MapGet(prevMap, disappearedKeys[i]),
                       unitNumberFromKey(disappearedKeys[i])), Null),
                 "disappeared", source)]

\* the loop body of main of the v2 differ for one property
main_diff_snapshots_v2_run(propertyId, SNAPSHOT_DATE) ==
    LET snaps == getLastTwoSnapshots(unit_snapshots, propertyId, SNAPSHOT_DATE)
        latest == snaps[1]
        prev == snaps[2]
        prevMap == buildMap(prev.units_json)
        currMap == buildMap(latest.units_json)
        d == diffKeys(prevMap, currMap)
    IN  /\ UNCHANGED unit_snapshots
        /\ IF Len(snaps) < 2
           THEN \* skip (need 2 snapshots)
                /\ UNCHANGED unit_events
                /\ last' = Ran("diff_snapshots_to_unit_events_v2", propertyId,
                               IF snaps = <<>> THEN 0 ELSE latest.snapshot_date,
                               "snapshot", <<>>,
                               IF snaps = <<>> THEN <<>> ELSE latest.units_json,
                               FALSE, <<>>, NoDiff, "skip")
           ELSE /\ unit_events' =
                      insertEvents(
                          deleteEventsForDay(unit_events, propertyId,
                                             latest.snapshot_date, "snapshot"),
                          EventsOfDiff_v2(propertyId, latest.snapshot_date, d.appeared,
                                          d.disappeared, currMap, prevMap, "snapshot"))
                /\ last' = Ran("diff_snapshots_to_unit_events_v2", propertyId,
                               latest.snapshot_date, "snapshot", <<>>,
                               latest.units_json, TRUE, prev.units_json, d, "done")

\* main of the v2 differ with PROPERTY_ID set, as one serialized run
main_diff_snapshots_v2(propertyId, SNAPSHOT_DATE) ==
    /\ runs < MaxRuns
    /\ runs' = runs + 1
    /\ main_diff_snapshots_v2_run(propertyId, SNAPSHOT_DATE)
    /\ UNCHANGED <<fn, proc, unit_changes, lockFile>>

\* the snapshot dates of the stores the differs run on
DiffDates == <<Yesterday, 1, 2>>

\* the units_json of the stored rows: what the v6 pusher stores for its inputs
StoredUnits == {BuildUnitsToday(u) : u \in DomInputs}

\* the rows of one property, one per date that has a snapshot; has[i] tells
\* whether DiffDates[i] has one and units[i] is its units_json
RowsOf(propertyId, has, units) ==
    LET F[i \in 0..Len(DiffDates)] ==
            IF i = 0 THEN <<>>
            ELSE IF has[i]
                 THEN Append(F[i - 1], [property_id |-> propertyId,
                                        snapshot_date |-> DiffDates[i],
                                        units_json |-> units[i]])
                 ELSE F[i - 1]
    IN  F[Len(DiffDates)]

\* a sequence in reverse order
Reverse(seq) == [i \in DOMAIN seq |-> seq[Len(seq) + 1 - i]]

\* the stores: rows of "p1" for any dates, in either order of insertion, after
\* one row of "p2"
DiffStores ==
    {<<[property_id |-> "p2", snapshot_date |-> 2,
        units_json |-> BuildUnitsToday(<<DomUnit(N101, Price1)>>)]>> \o rows :
        rows \in UNION {{RowsOf("p1", has, units), Reverse(RowsOf("p1", has, units))} :
                           has \in [1..3 -> BOOLEAN],
                           units \in [1..3 -> StoredUnits]}}

\* an event row that an earlier differ run has left
StaleEvents ==
    <<EventRow("p1", 1, UnitPrefix \o N103, N103, "appeared", "snapshot")>>

InitDiff ==
    /\ unit_changes = <<>>
    /\ lockFile = FALSE
    /\ unit_snapshots \in DiffStores
    /\ unit_events \in {<<>>, StaleEvents}
    /\ runs = 0
    /\ fn = FnOff
    /\ proc = ProcOff
    /\ last = NoRun

NextDiff ==
    \/ \E p \in Properties, d \in Dates \cup {0} : main_diff_snapshots(p, d)
    \/ \E p \in Properties, d \in Dates \cup {0} : main_diff_snapshots_v2(p, d)

SpecDiff == InitDiff /\ [][NextDiff]_vars

\* ---------------------------------------------------------------------------
\* diff_and_push_changes after the SightMap pusher
\* ---------------------------------------------------------------------------

\* normalizeUnit of diff_and_push_changes (the stored units carry no
\* available_on and no floor_plan_id)
normalizeUnit(u) ==
    [unit_id |-> u.unit_id,
     unit_number |-> u.unit_number,
     available_on |-> Null,
     price |-> IF Truthy(u.price) THEN u.price ELSE Null,
     floor_plan_id |-> Null]

\* unitsToMap of diff_and_push_changes: a Map from String(unit_id) to the
\* normalized unit, kept as the sequence of its values in insertion order
RECURSIVE unitsToMap(_)
unitsToMap(unitsJson) ==
    IF OrEmpty(unitsJson) = <<>> THEN <<>>
    ELSE LET us == OrEmpty(unitsJson)
             map == unitsToMap(SubSeq(us, 1, Len(us) - 1))
             u == normalizeUnit(us[Len(us)])
         IN  IF ~Truthy(u.unit_id) THEN map
             ELSE IF \E i \in DOMAIN map : map[i].unit_id = u.unit_id
             THEN [i \in DOMAIN map |-> IF map[i].unit_id = u.unit_id THEN u ELSE map[i]]
             ELSE Append(map, u)

\* diffUnits of diff_and_push_changes: NEW and CHANGED in the order of the
\* current units, then REMOVED in the order of the previous units
diffUnits_changes(prevUnits, currUnits) ==
    LET prevMap == unitsToMap(prevUnits)
        currMap == unitsToMap(currUnits)
        get(map, id) == IF \E i \in DOMAIN map : map[i].unit_id = id
                        THEN map[CHOOSE i \in DOMAIN map : map[i].unit_id = id]
                        ELSE NoRow
        change(type, id, n, before, after) ==
            [change_type |-> type, unit_id |-> id, unit_number |-> n,
             before |-> before, after |-> after]
        changed(prev, curr) ==
            \/ prev.available_on # curr.available_on
            \/ prev.price # curr.price
            \/ prev.floor_plan_id # curr.floor_plan_id
            \/ prev.unit_number # curr.unit_number
        ofCurr == [i \in DOMAIN currMap |->
                     LET curr == currMap[i]
                         prev == get(prevMap, curr.unit_id)
                     IN  IF prev = NoRow
                         THEN <<change("NEW", curr.unit_id, curr.unit_number, NoRow, curr)>>
                         ELSE IF changed(prev, curr)
                         THEN <<change("CHANGED", curr.unit_id,
                                       IF curr.unit_number # Null THEN curr.unit_number
                                       ELSE prev.unit_number,
                                       prev, curr)>>
                         ELSE <<>>]
        ofPrev == [i \in DOMAIN prevMap |->
                     IF get(currMap, prevMap[i].unit_id) = NoRow
                     THEN <<change("REMOVED", prevMap[i].unit_id, prevMap[i].unit_number,
                                   prevMap[i], NoRow)>>
                     ELSE <<>>]
        Flat[i \in 0..(Len(ofCurr) + Len(ofPrev))] ==
            IF i = 0 THEN <<>>
            ELSE Flat[i - 1] \o (ofCurr \o ofPrev)[i]
    IN  Flat[Len(ofCurr) + Len(ofPrev)]

\* getSnapshot of diff_and_push_changes: the row of (property, date) or none
getSnapshot(rows, propertyId, snapshotDate) ==
    IF \E i \in DOMAIN rows :
          rows[i].property_id = propertyId /\ rows[i].snapshot_date = snapshotDate
    THEN rows[CHOOSE i \in DOMAIN rows :
                 rows[i].property_id = propertyId /\ rows[i].snapshot_date = snapshotDate]
    ELSE NoRow

\* upsertChanges of diff_and_push_changes: returns at once when there are no
\* changes; otherwise deletes the rows of (property, date) and inserts the rows
\* of the changes
upsertChanges(rows, propertyId, snapshotDate, changes) ==
    IF changes = <<>> THEN rows
    ELSE SelectSeq(rows, LAMBDA r : ~(r.property_id = propertyId
                                      /\ r.snapshot_date = snapshotDate))
         \o [i \in DOMAIN changes |->
                [property_id |-> propertyId, snapshot_date |-> snapshotDate,
                 change_type |-> changes[i].change_type, unit_id |-> changes[i].unit_id,
                 unit_number |-> changes[i].unit_number,
                 before |-> changes[i].before, after |-> changes[i].after]]

\* main of diff_and_push_changes for SIGHTMAP_PROPERTY_ID and SNAPSHOT_DATE:
\* exit 1 without a snapshot of the date, exit 0 without one of the day before
main_diff_and_push_changes(propertyId, currDate) ==
    LET prevSnap == getSnapshot(unit_snapshots, propertyId, currDate - 1)
        currSnap == getSnapshot(unit_snapshots, propertyId, currDate)
        changes == diffUnits_changes(prevSnap.units_json, currSnap.units_json)
    IN  /\ runs < MaxRuns + 1
        /\ runs' = runs + 1
        /\ IF currSnap = NoRow
           THEN /\ UNCHANGED unit_changes
                /\ last' = Ran("diff_and_push_changes", propertyId, currDate, "", <<>>,
                               <<>>, FALSE, <<>>, NoDiff, "exit1")
           ELSE IF prevSnap = NoRow
           THEN /\ UNCHANGED unit_changes
                /\ last' = Ran("diff_and_push_changes", propertyId, currDate, "", <<>>,
                               currSnap.units_json, FALSE, <<>>, NoDiff, "skip")
           ELSE /\ unit_changes' = upsertChanges(unit_changes, propertyId, currDate,
                                                 changes)
                /\ last' = Ran("diff_and_push_changes", propertyId, currDate, "", <<>>,
                               currSnap.units_json, TRUE, prevSnap.units_json,
                               NoDiff, "done")
        /\ UNCHANGED <<unit_snapshots, unit_events, fn, proc, lockFile>>

\* a run of the SightMap pusher before or between runs of diff_and_push_changes
push_sightmap_snapshot(propertyId, snapshotDate, payload) ==
    /\ runs < MaxRuns + 1
    /\ runs' = runs + 1
    /\ main_sightmap_v1_run(propertyId, snapshotDate, payload)
    /\ UNCHANGED <<fn, proc, unit_changes, lockFile>>

\* the store after the pusher has run for "p1" the day before and on day 1
InitChanges ==
    /\ \E before \in SightmapPayloads \ {<<>>}, payload \in SightmapPayloads :
          unit_snapshots =
              upsertSnapshot(upsertSnapshot(<<>>, "p1", Yesterday,
                                            extractUnits_v1(before)),
                             "p1", 1, extractUnits_v1(payload))
    /\ unit_events = <<>>
    /\ unit_changes = <<>>
    /\ lockFile = FALSE
    /\ runs = 0
    /\ fn = FnOff
    /\ proc = ProcOff
    /\ last = NoRun

NextChanges ==
    \/ \E p \in Properties, d \in Dates, u \in SightmapPayloads :
          push_sightmap_snapshot(p, d, u)
    \/ \E p \in Properties, d \in Dates : main_diff_and_push_changes(p, d)

SpecChanges == InitChanges /\ [][NextChanges]_vars

\* ---------------------------------------------------------------------------
\* Two invocations of run_sightmap_all.ps1 in the same directory
\* ---------------------------------------------------------------------------

\* each invocation has one env file, of property "p1", and the lock file is not
\* there when the first one starts
InitLock ==
    /\ unit_snapshots = <<>>
    /\ unit_events = <<>>
    /\ unit_changes = <<>>
    /\ lockFile = FALSE
    /\ runs = 0
    /\ fn = FnOff
    /\ proc = [self \in {"run1", "run2"} |->
                 [Idle("run_sightmap_all.ps1", <<"p1">>, 1) EXCEPT !.pc = "start"]]
    /\ last = NoRun

NextLock ==
    \/ SightmapAllStep("run1")
    \/ SightmapAllStep("run2")

SpecLock == InitLock /\ [][NextLock]_vars

\* ---------------------------------------------------------------------------
\* push_prospectportal_snapshot_to_supabase_v3 started again after a run whose
\* insert request failed
\* ---------------------------------------------------------------------------

\* replaceEventsForDay: the insert request fails, insErr is thrown and
\* main().catch ends the run with exit code 1
main_v3_insertEvents_fails(self) ==
    LET me == proc[self]
    IN  /\ me.pc = "insert"
        /\ proc' = [proc EXCEPT ![self].pc = "exit1"]
        /\ UNCHANGED <<unit_snapshots, unit_events, last, runs, fn, unit_changes, lockFile>>

\* the script is started again after a run has ended; prior keeps the date, the
\* raw input and the events array of the run that ended, and whether it failed
main_v3_again(self) ==
    LET me == proc[self]
    IN  /\ me.pc \in {"done", "exit1", "exit2"}
        /\ runs < MaxRuns
        /\ runs' = runs + 1
        /\ proc' = [proc EXCEPT ![self] =
                      [@ EXCEPT !.pc = "start",
                                !.prior = [failed |-> me.pc = "exit1",
                                           snapshotDate |-> me.snapshotDate,
                                           unitsToday |-> me.unitsToday,
                                           events |-> me.events]]]
        /\ UNCHANGED <<unit_snapshots, unit_events, last, fn, unit_changes, lockFile>>

InitRerun ==
    /\ unit_changes = <<>>
    /\ lockFile = FALSE
    /\ unit_snapshots = <<>>
    /\ unit_events = <<>>
    /\ last = NoRun
    /\ runs = 0
    /\ fn = FnOff
    /\ proc = [self \in {"run1"} |->
                 [pc |-> "start", snapshotDate |-> 0, unitsToday |-> <<>>,
                  prevUnits |-> <<>>, events |-> <<>>,
                  prior |-> [failed |-> FALSE, snapshotDate |-> 0,
                             unitsToday |-> <<>>, events |-> <<>>]]]

NextRerun ==
    \/ \E d \in Dates, u \in ProspectPortalInputs : main_v3_scrape("run1", d, u)
    \/ main_v3_getLatestSnapshot("run1")
    \/ main_v3_upsertSnapshot("run1")
    \/ main_v3_deleteEvents("run1")
    \/ main_v3_insertEvents("run1")
    \/ main_v3_insertEvents_fails("run1")
    \/ main_v3_again("run1")

SpecRerun == InitRerun /\ [][NextRerun]_vars

-----------------------------------------------------------------------------
(* Properties of the serialized runs *)

\* the unit_events rows of one (property_id, event_date, source)
EventsFor(rows, propertyId, eventDate, source) ==
    SelectSeq(rows, LAMBDA r : r.property_id = propertyId
                               /\ r.event_date = eventDate /\ r.source = source)

\* the unit_snapshots rows of one (property_id, snapshot_date)
SnapshotsFor(rows, propertyId, snapshotDate) ==
    SelectSeq(rows, LAMBDA r : r.property_id = propertyId
                               /\ r.snapshot_date = snapshotDate)

\* a sequence as a multiset
BagOf(seq) == [x \in Range(seq) |-> Cardinality({i \in DOMAIN seq : seq[i] = x})]

ScrapeWithEvents ==
    {"run_rentcafe_all_with_events", "push_rentcafe_snapshot_to_supabase_v6",
     "push_prospectportal_snapshot_to_supabase_v3",
     "push_sightmap_snapshot_to_supabase_v2"}

SnapshotWriters == ScrapeWithEvents \cup {"push_sightmap_snapshot_to_supabase"}

\* the unit keys of a unit list, as the last run's script reads them
RunKeys(units) ==
    IF last.pipeline = "run_rentcafe_all_with_events" THEN Range(EventKeys(units))
    ELSE IF last.pipeline = "diff_snapshots_to_unit_events"
         THEN Range(MapKeys(buildMap(units)))
    ELSE Range(UnitKeys(units))

\* ev holds exactly one eventType row for each key of keys
OnePerKey(ev, eventType, keys) ==
    \A k \in keys \cup {ev[i].unit_key : i \in {j \in DOMAIN ev : ev[j].event_type = eventType}} :
        Cardinality({i \in DOMAIN ev : ev[i].event_type = eventType /\ ev[i].unit_key = k})
            = IF k \in keys THEN 1 ELSE 0

LastEvents == EventsFor(unit_events, last.property_id, last.date, last.source)

\* C1: rerunning the full pipeline for the same (property, date, source) with the
\* same raw input leaves the Snapshot of (property, date) and the multiset of
\* Event rows of (property, date, source) as they were after the previous run.
C1_Idempotence ==
    [][(/\ last.pipeline \in ScrapeWithEvents
        /\ last.outcome = "done"
        /\ last'.pipeline = last.pipeline
        /\ last'.property_id = last.property_id
        /\ last'.date = last.date
        /\ last'.source = last.source
        /\ last'.input = last.input
        /\ runs' = runs + 1)
       => (/\ SnapshotsFor(unit_snapshots', last.property_id, last.date)
                = SnapshotsFor(unit_snapshots, last.property_id, last.date)
           /\ BagOf(EventsFor(unit_events', last.property_id, last.date, last.source))
                = BagOf(EventsFor(unit_events, last.property_id, last.date, last.source)))]_vars

\* C2: after a completed event replacement for (property_id, event_date, source),
\* the stored rows of the tuple are exactly one 'appeared' row per key of the
\* run's appeared set and one 'disappeared' row per key of its disappeared set.
C2_EventsAreLatestDiff ==
    (last.outcome = "done" /\ last.source # "")
        => /\ OnePerKey(LastEvents, "appeared", Range(last.appeared))
           /\ OnePerKey(LastEvents, "disappeared", Range(last.disappeared))
           /\ \A i \in DOMAIN LastEvents :
                  LastEvents[i].event_type \in {"appeared", "disappeared"}

\* C2 witness: a second run replaced the events of a tuple with a diff that has
\* both appeared and disappeared keys
C2_Witness ==
    /\ runs = 2
    /\ last.outcome = "done"
    /\ last.appeared # <<>>
    /\ last.disappeared # <<>>
    /\ Len(LastEvents) = Len(last.appeared) + Len(last.disappeared)

\* C3: there is at most one snapshot row per (property_id, snapshot_date), and
\* after a run for (p, d) its row holds exactly the units of that run.
C3_OneSnapshotPerDay ==
    /\ \A i, j \in DOMAIN unit_snapshots :
          (unit_snapshots[i].property_id = unit_snapshots[j].property_id
           /\ unit_snapshots[i].snapshot_date = unit_snapshots[j].snapshot_date)
              => i = j
    /\ (last.pipeline \in SnapshotWriters /\ last.outcome = "done")
          => \E i \in DOMAIN unit_snapshots :
                /\ unit_snapshots[i].property_id = last.property_id
                /\ unit_snapshots[i].snapshot_date = last.date
                /\ unit_snapshots[i].units_json = last.units

\* C3 witness: a run overwrote the same-day row of an earlier run that held
\* other units
C3_Witness ==
    /\ last.pipeline \in SnapshotWriters
    /\ last.outcome = "done"
    /\ last.overwrote
    /\ last.units # <<>>
    /\ Len(SnapshotsFor(unit_snapshots, last.property_id, last.date)) = 1

\* C6: when a property has no prior snapshot, processing its first snapshot with
\* current units U leaves exactly one 'appeared' event per key of U and no
\* 'disappeared' event for (property, date, source).
C6_FirstRunAllAppeared ==
    (/\ last.outcome \in {"done", "skip"}
     /\ last.source # ""
     /\ last.date # 0
     /\ ~last.hadSnapshot)
        => /\ OnePerKey(LastEvents, "appeared", RunKeys(last.units))
           /\ \A i \in DOMAIN LastEvents : LastEvents[i].event_type # "disappeared"

\* C7: when the adapter yields zero units and the baseline is non-empty, the run
\* persists an empty snapshot for (property, date) and leaves one 'disappeared'
\* event per baseline key and no 'appeared' event.
C7_EmptyCurrentPersisted ==
    (/\ last.pipeline \in ScrapeWithEvents
     /\ last.units = <<>>
     /\ last.baseline # <<>>)
        => /\ \E i \in DOMAIN unit_snapshots :
                 /\ unit_snapshots[i].property_id = last.property_id
                 /\ unit_snapshots[i].snapshot_date = last.date
                 /\ unit_snapshots[i].units_json = <<>>
           /\ OnePerKey(LastEvents, "disappeared", RunKeys(last.baseline))
           /\ \A i \in DOMAIN LastEvents : LastEvents[i].event_type # "appeared"

\* C10: a raw record with neither a unit number nor an id appears in no
\* persisted snapshot, and no event is written for it.
C10_DropRule ==
    /\ \A i \in DOMAIN unit_snapshots :
          \A j \in DOMAIN unit_snapshots[i].units_json :
              LET u == unit_snapshots[i].units_json[j]
              IN  ~(/\ ~Truthy(u.unit_number)
                    /\ ~Truthy(u.unit_key)
                    /\ u.unit_id \in {Null, StrUndefined})
    /\ \A i \in DOMAIN unit_events :
          unit_events[i].unit_key # IdPrefix \o StrUndefined

\* the key set of a unit list as the diff function f reads it
KeySetBy(f, units) ==
    LET us == Range(OrEmpty(units))
        keys == IF f = "diffUnitKeys" THEN {unitKeyForEvents(u) : u \in us}
                ELSE IF f = "diffKeys" THEN {normalizeUnitKey(u) : u \in us}
                ELSE {u.unit_key : u \in us}
    IN  {k \in keys : Truthy(k)}

\* C5: for unit lists prev and curr with key sets A and B (empty and missing
\* lists included) every diff function returns appeared = B \ A and
\* disappeared = A \ B, each key once; the two are disjoint and
\* (A \ disappeared) \cup appeared = B.
C5_DiffCorrect ==
    fn.kind = "diff" =>
        LET A == KeySetBy(fn.f, fn.prev)
            B == KeySetBy(fn.f, fn.curr)
            appeared == fn.result.appeared
            disappeared == fn.result.disappeared
        IN  /\ Range(appeared) = B \ A
            /\ Range(disappeared) = A \ B
            /\ Cardinality(Range(appeared)) = Len(appeared)
            /\ Cardinality(Range(disappeared)) = Len(disappeared)
            /\ Range(appeared) \cap Range(disappeared) = {}
            /\ (A \ Range(disappeared)) \cup Range(appeared) = B

\* C5 witness: a diff where prev repeats a key and the result has a key appeared
\* and a key disappeared
C5_Witness ==
    /\ fn.kind = "diff"
    /\ fn.result.appeared # <<>>
    /\ fn.result.disappeared # <<>>
    /\ Len(OrEmpty(fn.prev)) > Cardinality(KeySetBy(fn.f, fn.prev))
    /\ Len(fn.result.disappeared) = Cardinality(KeySetBy(fn.f, fn.prev))

C9_RuleOrder ==
    (/\ fn.kind = "key"
     /\ fn.f \in {"normalizeUnitKey", "unitKeyForEvents", "normalizePrevUnits_v3",
                  "normalizePrevUnits_v6"})
        => LET u == fn.record
               expected ==
                   IF Truthy(u.unit_key) THEN u.unit_key
                   ELSE IF Truthy(normalizeUnitNumber(u.unit_number))
                        THEN UnitPrefix \o Trim(u.unit_number)
                   ELSE IF Truthy(u.unit_id) THEN IdPrefix \o u.unit_id
                   ELSE Null
           IN  /\ fn.key = expected
               /\ Truthy(fn.key) =>
                     StartsWith(fn.key, UnitPrefix) \/ StartsWith(fn.key, IdPrefix)

\* the processes that have completed their upsertSnapshot call
Upserted == {self \in Procs : proc[self].pc \in {"delete", "insert", "done"}}

\* C4: when two runs for the same property and day have both executed
\* upsertSnapshot, in every interleaving the store holds exactly one row for
\* (property, date) and its units are those of one of the two runs.
C4_ConcurrentUpsertOneRow ==
    \A a, b \in Upserted :
        (a # b /\ proc[a].snapshotDate = proc[b].snapshotDate) =>
            LET rows == SnapshotsFor(unit_snapshots, PROPERTY_ID, proc[a].snapshotDate)
            IN  /\ Len(rows) = 1
                /\ rows[1].units_json \in {proc[a].unitsToday, proc[b].unitsToday}

\* C4 witness: two runs for the same day with different units both read an empty
\* history, so both were in flight before either upsert, and both have finished
C4_Witness ==
    /\ proc["run1"].pc = "done"
    /\ proc["run2"].pc = "done"
    /\ proc["run1"].snapshotDate = proc["run2"].snapshotDate
    /\ proc["run1"].unitsToday # proc["run2"].unitsToday
    /\ proc["run1"].prevUnits = <<>>
    /\ proc["run2"].prevUnits = <<>>
    /\ Len(SnapshotsFor(unit_snapshots, PROPERTY_ID, proc["run1"].snapshotDate)) = 1

\* the key of a unit as the diff function f reads it
KeyBy(f, u) ==
    IF f = "diffUnitKeys" THEN unitKeyForEvents(u)
    ELSE IF f = "diffKeys" THEN normalizeUnitKey(u)
    ELSE u.unit_key

\* C11: every event row whose unit_key is unit:<n> with non-empty n carries a
\* non-null unit_number; when no current unit of that key has a unit number of
\* its own, the row's unit_number is n, recovered from the key.
C11_EventUnitNumber ==
    fn.kind = "events" =>
        \A i \in DOMAIN fn.events :
            LET row == fn.events[i]
                own == {u \in Range(OrEmpty(fn.curr)) :
                            KeyBy(fn.f, u) = row.unit_key
                            /\ Truthy(normalizeUnitNumber(u.unit_number))}
            IN  (StartsWith(row.unit_key, UnitPrefix) /\ Len(row.unit_key) > 5)
                    => /\ Truthy(row.unit_number)
                       /\ own = {} => row.unit_number = Slice(row.unit_key, 5)

\* C11 witness: an 'appeared' row for unit:103, whose current unit has an empty
\* unit_number, carries "103"
C11_Witness ==
    /\ fn.kind = "events"
    /\ \E i \in DOMAIN fn.events :
          /\ fn.events[i].unit_key = UnitPrefix \o N103
          /\ fn.events[i].event_type = "appeared"
          /\ fn.events[i].unit_number = N103
    /\ \E j \in DOMAIN fn.curr :
          /\ KeyBy(fn.f, fn.curr[j]) = UnitPrefix \o N103
          /\ fn.curr[j].unit_number = <<>>

\* the unit_events rows outside the tuple (property_id, event_date, source)
EventsOutside(rows, propertyId, eventDate, source) ==
    SelectSeq(rows, LAMBDA r : ~(r.property_id = propertyId
                                 /\ r.event_date = eventDate /\ r.source = source))

\* C12: a run's event replacement for (property, date, source) leaves every
\* event row of another source, another date or another property as it was.
C12_ReplacementFrame ==
    [][runs' = runs + 1 =>
          EventsOutside(unit_events', last'.property_id, last'.date, last'.source)
              = EventsOutside(unit_events, last'.property_id, last'.date, last'.source)]_vars

\* C12 witness: a run wrote the events of its tuple while rows of another source
\* for the same property and day are stored
C12_Witness ==
    /\ last.outcome = "done"
    /\ LastEvents # <<>>
    /\ \E i \in DOMAIN unit_events :
          /\ unit_events[i].property_id = last.property_id
          /\ unit_events[i].event_date = last.date
          /\ unit_events[i].source # last.source

\* C13: a batch ends only after every property was attempted, and a failure of
\* one property's run is reported, never propagated out of the batch.
C13_BatchContinues ==
    \A self \in DOMAIN proc :
        proc[self].script \in BatchLoops /\ proc[self].pc \in {"exit0", "exit1"}
            => proc[self].todo = <<>> /\ proc[self].pc = "exit0"

\* C14: when the snapshot upsert of a run fails, the run ends failed (the process
\* exits with code 1, or the batch counts the property as failed) and both tables
\* are as they were when the run started.
C14_UpsertFailureLeavesStore ==
    \A self \in DOMAIN proc :
        proc[self].thrownAt = "upsertSnapshot"
            => /\ unit_snapshots = proc[self].start.unit_snapshots
               /\ unit_events = proc[self].start.unit_events
               /\ \/ proc[self].pc = "exit1"
                  \/ /\ proc[self].failed # <<>>
                     /\ proc[self].failed[Len(proc[self].failed)] = proc[self].id

\* an upsert failed in a run that had found snapshots and events in the store
C14_Witness ==
    \E self \in DOMAIN proc :
        /\ proc[self].thrownAt = "upsertSnapshot"
        /\ proc[self].pc = "exit1"
        /\ unit_snapshots # <<>>
        /\ unit_events # <<>>

\* C15: when every navigation attempt for a property's URL has failed, the run
\* writes neither a snapshot nor events (both tables stay as they were when the
\* run started) and, once it has ended, it has ended failed.
C15_ExhaustedRetriesWriteNothing ==
    \A self \in DOMAIN proc :
        proc[self].thrownAt = "goto"
            => /\ unit_snapshots = proc[self].start.unit_snapshots
               /\ unit_events = proc[self].start.unit_events
               /\ proc[self].pc \in {"loop", "exit0", "exit1"}
                    => \/ proc[self].pc = "exit1"
                       \/ /\ proc[self].failed # <<>>
                          /\ proc[self].failed[Len(proc[self].failed)] = proc[self].id

\* C16: the steps of a run follow the pipeline order: while the run is fetching,
\* or is about to read its baseline and compute the diff, its snapshot has not
\* been upserted; and the run has changed the events only when the snapshot of
\* its property and date is stored.
C16_PipelineOrder ==
    \A self \in DOMAIN proc :
        /\ proc[self].pc \in {"scrape", "goto", "extract", "getPreviousSnapshot",
                               "getLatestSnapshot"}
              => unit_snapshots = proc[self].start.unit_snapshots
        /\ unit_events # proc[self].start.unit_events
              => \E i \in DOMAIN unit_snapshots :
                    /\ unit_snapshots[i].property_id = proc[self].id
                    /\ unit_snapshots[i].snapshot_date = proc[self].today

\* the event rows a script builds for (propertyId, date, source) from a baseline
\* and the units of the day
EventsOfPipeline(pipeline, propertyId, date, source, baseline, units) ==
    IF pipeline = "run_rentcafe_all_with_events"
    THEN LET d == diffUnitKeys(baseline, units)
         IN  EventsOfRentCafe(propertyId, date, d.appeared, d.disappeared, source)
    ELSE IF pipeline = "push_sightmap_snapshot_to_supabase_v2"
    THEN LET d == diffUnits(baseline, units)
         IN  EventsOfSightmap(propertyId, date, d.appeared, d.disappeared, units, source)
    ELSE LET prevUnits == IF pipeline = "push_rentcafe_snapshot_to_supabase_v6"
                          THEN normalizePrevUnits_v6(baseline)
                          ELSE normalizePrevUnits_v3(baseline)
             d == diffKeysOfUnits(prevUnits, units)
         IN  EventsOfPusher(propertyId, date, d.appeared, d.disappeared, units, source)

\* the stored events of (propertyId, date, source) are the diff between a stored
\* baseline for date and the stored snapshot of date; the baseline may be read
\* either way the scripts read it: the latest snapshot before date, or the latest
\* snapshot up to date
StoredEventsAreDiff(snapshots, events, pipeline, propertyId, date, source) ==
    LET snap == SnapshotsFor(snapshots, propertyId, date)
        stored == BagOf(EventsFor(events, propertyId, date, source))
    IN  snap # <<>>
        => \E baseline \in {getPreviousSnapshot(snapshots, propertyId, date),
                             getLatestSnapshot(snapshots, propertyId, date)} :
              stored = BagOf(EventsOfPipeline(pipeline, propertyId, date, source,
                                              UnitsOf(baseline), snap[1].units_json))

\* C17: after every completed run of a script that writes events, on a store only
\* that script has written, the stored events of the tuple just run, and of the
\* tuple run before it, equal the diff between the stored baseline and the stored
\* snapshot of the tuple's date.
C17_EventsMatchStoredSnapshots ==
    [][(/\ runs' = runs + 1
        /\ last'.pipeline \in ScrapeWithEvents
        /\ last'.outcome = "done"
        /\ last.pipeline \in {"none", last'.pipeline})
       => (/\ StoredEventsAreDiff(unit_snapshots', unit_events', last'.pipeline,
                                  last'.property_id, last'.date, last'.source)
           /\ (last.pipeline = last'.pipeline /\ last.outcome = "done")
                => StoredEventsAreDiff(unit_snapshots', unit_events', last.pipeline,
                                       last.property_id, last.date, last.source))]_vars

\* C18: when the runs of two distinct properties for the same day and source have
\* both completed, the rows of both tables are those of the two runs executed one
\* after the other, whatever the interleaving of their requests was.
C18_DistinctPropertiesCommute ==
    (\A self \in DOMAIN proc : proc[self].pc = "exit0")
        => LET serial == runOnePropertyOn(
                             runOnePropertyOn(StorePar, "p1", proc["run1"].today,
                                              proc["run1"].units),
                             "p2", proc["run2"].today, proc["run2"].units)
           IN  /\ BagOf(unit_snapshots) = BagOf(serial.unit_snapshots)
               /\ BagOf(unit_events) = BagOf(serial.unit_events)

\* both runs completed after interleaving: p2's snapshot was upserted before p1's,
\* p1's events were inserted before p2's
C18_Witness ==
    /\ \A self \in DOMAIN proc : proc[self].pc = "exit0"
    /\ unit_snapshots[Len(unit_snapshots)].property_id = "p1"
    /\ unit_events[Len(unit_events)].property_id = "p2"
    /\ unit_events[Len(unit_events)].event_date = proc["run2"].today
    /\ \E i \in DOMAIN unit_events :
          /\ unit_events[i].property_id = "p1"
          /\ unit_events[i].event_date = proc["run1"].today

\* the stored events of the tuple both runs of SpecConc wrote
StoredConc ==
    BagOf(EventsFor(unit_events, PROPERTY_ID, proc["run1"].snapshotDate,
                    "prospectportal"))

\* both runs have ended and were for the same date
BothDoneSameDay ==
    /\ \A self \in Procs : proc[self].pc = "done"
    /\ proc["run1"].snapshotDate = proc["run2"].snapshotDate

\* C19: when two runs for the same (property, date, source) have interleaved their
\* delete and insert requests, the stored events of the tuple are the events of
\* one run or the rows of both runs together, and nothing else; the state where
\* they are the diff of neither run is reachable (C19_Witness).
C19_InterleavedReplacement ==
    BothDoneSameDay
        => StoredConc \in {BagOf(proc["run1"].events), BagOf(proc["run2"].events),
                           BagOf(proc["run1"].events \o proc["run2"].events)}

\* both runs ended and the stored events of the tuple are the diff of neither
C19_Witness ==
    /\ BothDoneSameDay
    /\ proc["run1"].events # <<>>
    /\ proc["run2"].events # <<>>
    /\ StoredConc # BagOf(proc["run1"].events)
    /\ StoredConc # BagOf(proc["run2"].events)

\* the baseline units as the script of pipeline keeps them after reading the row
BaselineRead(pipeline, row) ==
    IF pipeline = "push_rentcafe_snapshot_to_supabase_v6"
    THEN normalizePrevUnits_v6(UnitsOf(row))
    ELSE IF pipeline = "push_prospectportal_snapshot_to_supabase_v3"
    THEN normalizePrevUnits_v3(UnitsOf(row))
    ELSE UnitsOf(row)

\* C20: the baseline a completed run diffed against is the snapshot of its property
\* with the greatest date strictly before the run's date, or empty when there is
\* none; it is never the snapshot of the run's own date.
C20_BaselineStrictlyBefore ==
    [][(/\ runs' = runs + 1
        /\ last'.pipeline \in ScrapeWithEvents
        /\ last'.outcome = "done")
       => last'.baseline =
              BaselineRead(last'.pipeline,
                           getPreviousSnapshot(unit_snapshots, last'.property_id,
                                               last'.date))]_vars

\* the scripts that read their baseline with .lte("snapshot_date", date)
LtePipelines ==
    {"push_rentcafe_snapshot_to_supabase_v6",
     "push_prospectportal_snapshot_to_supabase_v3",
     "push_sightmap_snapshot_to_supabase_v2"}

\* the step is a completed rerun, by the same script, of the (property, date) the
\* run before it completed
SameDayRerun ==
    /\ runs' = runs + 1
    /\ last.pipeline \in LtePipelines
    /\ last'.pipeline = last.pipeline
    /\ last'.property_id = last.property_id
    /\ last'.date = last.date
    /\ last.outcome = "done"
    /\ last'.outcome = "done"

\* C21: a same-day rerun of a script whose baseline is the latest snapshot up to
\* the target date diffs against the snapshot the earlier run stored: appeared is
\* the keys of the second scrape that the first did not have, disappeared the keys
\* of the first that the second does not have, and both are empty exactly when the
\* key set is unchanged.
C21_SameDayRerunDiff ==
    [][SameDayRerun
       => LET before == Range(UnitKeys(last.units))
              after == Range(UnitKeys(last'.units))
          IN  /\ Range(last'.appeared) = after \ before
              /\ Range(last'.disappeared) = before \ after
              /\ (last'.appeared = <<>> /\ last'.disappeared = <<>>)
                    <=> before = after]_vars

\* a same-day rerun found one key gone and one key new
C21_Witness ==
    /\ runs = 2
    /\ last.pipeline \in LtePipelines
    /\ last.outcome = "done"
    /\ last.overwrote
    /\ last.appeared # <<>>
    /\ last.disappeared # <<>>

\* the unit number the script of diff function f parses out of a key
ParsedBy(f, unitKey) ==
    IF f = "diffKeys" THEN Or(unitNumberFromKey(unitKey), Null)
    ELSE IF f = "diffKeysOfUnits" THEN unitNumberFromUnitKey(unitKey)
    ELSE SliceUnitNumber(unitKey)

\* C22: the unit_number of a 'disappeared' row is the unit_number of a unit of that
\* key in the previous snapshot whenever one has a unit number, that of an
\* 'appeared' row the unit_number of a unit of that key in the current snapshot
\* whenever one has a unit number; only otherwise is it parsed from the key.
C22_UnitNumberSource ==
    fn.kind = "events" =>
        \A i \in DOMAIN fn.events :
            LET row == fn.events[i]
                side == IF row.event_type = "disappeared" THEN fn.prev ELSE fn.curr
                own == {normalizeUnitNumber(u.unit_number) :
                            u \in {v \in Range(OrEmpty(side)) :
                                      /\ KeyBy(fn.f, v) = row.unit_key
                                      /\ Truthy(normalizeUnitNumber(v.unit_number))}}
            IN  IF own # {} THEN row.unit_number \in own
                ELSE row.unit_number = ParsedBy(fn.f, row.unit_key)

\* the key a raw input record of the last run's script gets when the script
\* builds the canonical unit
BuiltKey(r) ==
    IF last.pipeline = "push_rentcafe_snapshot_to_supabase_v6"
    THEN Or(normalizeUnitKeyFromNumber(r.unit_number), r.unit_key)
    ELSE IF last.pipeline = "push_sightmap_snapshot_to_supabase_v2"
    THEN normalizeUnitKeyFromUnitNumber(normalizeUnitNumber(r.unit_number))
    ELSE IF last.pipeline = "run_rentcafe_all_with_events" THEN unitKeyForEvents(r)
    ELSE r.unit_key

\* the key of a persisted unit of the last run's snapshot
PersistedKey(u) ==
    IF last.pipeline = "run_rentcafe_all_with_events" THEN unitKeyForEvents(u)
    ELSE u.unit_key

\* C23: the snapshot a completed run persisted has no two units with the same
\* unit_key, and each of its units carries the price of the first record of the
\* run's input that has the unit's key.
C23_SnapshotKeyUnique ==
    (last.pipeline \in ScrapeWithEvents /\ last.outcome = "done")
        => LET snap == SnapshotsFor(unit_snapshots, last.property_id, last.date)
               units == snap[1].units_json
               first(k) == CHOOSE i \in DOMAIN last.input :
                              /\ BuiltKey(last.input[i]) = k
                              /\ \A j \in 1..(i - 1) : BuiltKey(last.input[j]) # k
           IN  /\ Len(snap) = 1
               /\ \A i, j \in DOMAIN units :
                     i # j => PersistedKey(units[i]) # PersistedKey(units[j])
               /\ \A i \in DOMAIN units :
                     units[i].price = last.input[first(PersistedKey(units[i]))].price

\* the attempt budget of the fetch of each script: attempts in
\* fetchSightmapLandingPage, NAV_RETRIES + 1 in gotoWithRetries of the v6 pusher,
\* two page.goto strategies for each of URL_RETRIES + 1 attempts in gotoWithRetries
\* of run_rentcafe_all
FetchBudget(script) ==
    CASE script = "run_sightmap_all.ps1" -> attempts
      [] script = "push_rentcafe_snapshot_to_supabase_v6" -> NAV_RETRIES + 1
      [] script = "run_rentcafe_all" -> 2 * (URL_RETRIES + 1)

\* the process is inside fetchSightmapLandingPage or gotoWithRetries
Fetching(me) == me.pc \in {"fetch", "goto"}

\* C24: every step of an extraction fetch is an attempt within the fixed budget:
\* a successful attempt returns (the fetch is left, nothing is thrown, no further
\* attempt), a failed attempt before the last one stays in the fetch, and the last
\* failed attempt leaves the fetch with the error thrown; the step of the
\* kill-switch of run_rentcafe_all is a step of main, not of the fetch
C24_FetchWithinBudget ==
    [][\A self \in DOMAIN proc :
          LET me == proc[self]
              after == proc'[self]
          IN  (/\ me.script # "run_rentcafe_all_with_events"
               /\ Fetching(me)
               /\ <<after.pc, after.tries>> # <<me.pc, me.tries>>
               /\ after.thrownAt # "timeout")
              => LET budget == FetchBudget(me.script)
                 IN  /\ me.tries < budget
                     /\ IF after.tries = me.tries
                        THEN ~Fetching(after) /\ after.thrownAt = ""
                        ELSE /\ after.tries = me.tries + 1
                             /\ IF after.tries < budget
                                THEN Fetching(after) /\ after.thrownAt = ""
                                ELSE /\ ~Fetching(after)
                                     /\ after.thrownAt \in {"fetch", "goto"}]_vars

\* every fetch has used up its budget and thrown, in some run
C24_Witness ==
    \E self \in DOMAIN proc :
        /\ proc[self].script = "run_sightmap_all.ps1"
        /\ proc[self].tries = attempts
        /\ proc[self].thrownAt = "fetch"
        /\ proc[self].pc = "exit1"

\* C25: in run_rentcafe_all a property whose scrape was cut off by the kill-switch
\* is counted as failed, main goes on with the loop, and the unit_snapshots rows
\* of that property stay what they were when the scrape was abandoned, also after
\* the abandoned scrape has ended
C25_TimedOutPropertyWritesNothing ==
    \A self \in DOMAIN proc :
        LET me == proc[self]
        IN  /\ \A i \in DOMAIN me.abandoned :
                  /\ me.abandoned[i].id \in Range(me.failed)
                  /\ SelectSeq(unit_snapshots,
                               LAMBDA r : r.property_id = me.abandoned[i].id)
                        = me.abandoned[i].rows
            /\ me.thrownAt = "timeout" => me.pc \in {"loop", "exit0"}

\* an abandoned scrape has ended while main was handling the next property
C25_Witness ==
    \E self \in DOMAIN proc :
        LET me == proc[self]
        IN  /\ me.abandoned # <<>>
            /\ ~me.abandoned[1].running
            /\ me.id # me.abandoned[1].id
            /\ me.pc = "loop"
            /\ me.thrownAt = ""
            /\ \E r \in Range(unit_snapshots) : r.property_id = me.id

\* the unit_snapshots rows the differ may use for a property: those of the
\* property, dated SNAPSHOT_DATE or earlier when it is set (0 is unset)
Eligible(propertyId, SNAPSHOT_DATE) ==
    {i \in DOMAIN unit_snapshots :
        /\ unit_snapshots[i].property_id = propertyId
        /\ (SNAPSHOT_DATE # 0 => unit_snapshots[i].snapshot_date <= SNAPSHOT_DATE)}

\* what a differ run leaves, given the rows it may use: nothing changes with
\* fewer than two rows; otherwise curr is the latest row and prev the latest of
\* the others, whatever their dates, and the events of (property, curr's date,
\* source) are replaced by their diff, all other rows being kept
DifferUsesLastTwo(propertyId, SNAPSHOT_DATE) ==
    LET rows == Eligible(propertyId, SNAPSHOT_DATE)
    IN  IF Cardinality(rows) < 2
        THEN unit_events' = unit_events /\ last'.outcome = "skip"
        ELSE \E c, p \in rows :
                LET curr == unit_snapshots[c]
                    prev == unit_snapshots[p]
                    mine(r) == /\ r.property_id = propertyId
                               /\ r.event_date = curr.snapshot_date
                               /\ r.source = "snapshot"
                IN  /\ prev.snapshot_date < curr.snapshot_date
                    /\ \A o \in rows \ {c, p} :
                          unit_snapshots[o].snapshot_date < prev.snapshot_date
                    /\ last'.outcome = "done"
                    /\ last'.date = curr.snapshot_date
                    /\ last'.units = curr.units_json
                    /\ last'.baseline = prev.units_json
                    /\ SelectSeq(unit_events', LAMBDA r : ~mine(r))
                         = SelectSeq(unit_events, LAMBDA r : ~mine(r))
                    /\ \A r \in Range(SelectSeq(unit_events', mine)) :
                          \/ /\ r.event_type = "appeared"
                             /\ r.unit_key \in Range(last'.appeared)
                          \/ /\ r.event_type = "disappeared"
                             /\ r.unit_key \in Range(last'.disappeared)
                    /\ Len(SelectSeq(unit_events', mine))
                         = Len(last'.appeared) + Len(last'.disappeared)

\* C26: a run of a batch differ for a property uses the two most recent
\* unit_snapshots rows of the property, restricted to dates up to SNAPSHOT_DATE
\* when it is set, as (prev, curr) whatever the gap between them, and writes the
\* events at the later row's date; with fewer than two such rows it changes no
\* event row
C26_DifferUsesLastTwo ==
    [][\A p \in Properties, d \in Dates \cup {0} :
          (main_diff_snapshots(p, d) \/ main_diff_snapshots_v2(p, d))
              => DifferUsesLastTwo(p, d)]_vars

\* a differ run has used two rows two days apart, the property having no row
\* for the day between them, and has found units that appeared
C26_Witness ==
    /\ last.outcome = "done"
    /\ last.pipeline \in {"diff_snapshots_to_unit_events",
                          "diff_snapshots_to_unit_events_v2"}
    /\ last.date = 2
    /\ last.appeared # <<>>
    /\ Cardinality({i \in DOMAIN unit_snapshots :
                       unit_snapshots[i].property_id = last.property_id}) = 2
    /\ \E i \in DOMAIN unit_snapshots :
          /\ unit_snapshots[i].property_id = last.property_id
          /\ unit_snapshots[i].snapshot_date = Yesterday

\* C27: after diff_and_push_changes has completed for (property, date) with a
\* snapshot of the day before present, the unit_changes rows of (property, date)
\* are the changes that run computed, each once
C27_ChangesAreThisRuns ==
    (last.pipeline = "diff_and_push_changes" /\ last.outcome = "done")
        => LET changes == diffUnits_changes(last.baseline, last.units)
               stored == SelectSeq(unit_changes,
                                   LAMBDA r : /\ r.property_id = last.property_id
                                              /\ r.snapshot_date = last.date)
           IN  /\ Len(stored) = Len(changes)
               /\ \A i \in DOMAIN stored :
                     /\ stored[i].change_type = changes[i].change_type
                     /\ stored[i].unit_id = changes[i].unit_id
                     /\ stored[i].before = changes[i].before
                     /\ stored[i].after = changes[i].after

\* the invocation has ended
Ended(me) == me.pc \in {"exit0", "exit1"}

\* C28: when an invocation of run_sightmap_all.ps1 that has created the lock
\* file ends, whether its loop completed or it threw for a missing env file, a
\* failed snapshot push or a failed diff, the lock file is not there
C28_LockRemovedAtEnd ==
    [][\A self \in DOMAIN proc :
          (/\ proc[self].script = "run_sightmap_all.ps1"
           /\ proc[self].hasLock
           /\ ~Ended(proc[self])
           /\ Ended(proc'[self]))
              => ~lockFile']_vars

\* the script has ended after a failed diff, having created the lock file and
\* pushed a snapshot
C28_Witness ==
    \E self \in DOMAIN proc :
        /\ proc[self].script = "run_sightmap_all.ps1"
        /\ proc[self].hasLock
        /\ proc[self].pc = "exit1"
        /\ proc[self].thrownAt = "diff"
        /\ unit_snapshots # <<>>
        /\ ~lockFile

\* the invocation is inside the try block of run_sightmap_all.ps1
InTry(me) == me.pc \in {"loop", "fetch", "push", "diff", "finally"}

\* C29: of two invocations of run_sightmap_all.ps1 at most one is ever inside
\* the property-processing loop; the other has exited without running a property,
\* and the lock file stays while the holder is in the loop
C29_MutualExclusion ==
    /\ ~(InTry(proc["run1"]) /\ InTry(proc["run2"]))
    /\ \A self \in DOMAIN proc :
          (InTry(proc[self]) /\ proc[self].pc # "finally") => lockFile

\* C30: a run of the v3 pusher whose insert request fails after its delete
\* leaves the tuple (property, date, source) without event rows, and when the
\* next run, with the same date and the same raw input, has succeeded, the
\* tuple's event rows are the events the failed run had computed
C30_RerunRestoresEvents ==
    \A self \in DOMAIN proc :
        LET me == proc[self]
            stored == EventsFor(unit_events, PROPERTY_ID, me.snapshotDate,
                                "prospectportal")
        IN  /\ me.pc = "exit1" => stored = <<>>
            /\ (/\ me.pc = "done"
                /\ me.prior.failed
                /\ me.prior.snapshotDate = me.snapshotDate
                /\ me.prior.unitsToday = me.unitsToday)
                  => stored = me.prior.events

====
